---------------------------- MODULE Spec2Model ----------------------------
(***************************************************************************)
(* Team Activity Monitor: the query handler (server), the two resilient    *)
(* source clients (JIRA, GitHub), the query parser, the data enricher and  *)
(* the response generator, modelled as state machines over the upstream    *)
(* answers.                                                                *)
(*                                                                         *)
(*   Spec       the POST /api/query handler, one query at a time, the      *)
(*              client caches kept between queries                         *)
(*   SpecCache  sequential calls of the cached client operations on a      *)
(*              clock, the entries expiring after the TTL                  *)
(*   SpecClient     calls of the client operations, answer by answer       *)
(*   SpecGenerate   generateResponse on the records of one query           *)
(*   SpecParse      parse calls on the shared QueryParser                  *)
(*   SpecMetrics    one enrich call, record lists of every size            *)
(*   SpecLink       enrich calls on the shared DataEnricher, the commits   *)
(*                  in every order                                         *)
(*   SpecRateLimit  makeRequest of the GitHub client, step by step         *)
(*   SpecExtract    getRecentCommits on commit messages of every kind      *)
(*   SpecRefetch    the client operations called again, call after call    *)
(*   SpecPulls      getActivePullRequests on several pull requests         *)
(***************************************************************************)
EXTENDS Integers, Sequences, FiniteSets, TLC

(***************************************************************************)
(* Bounds of the model (not program constants).                            *)
(***************************************************************************)
\* queries handled in one behaviour of Spec
MaxQueries == 1
\* records an upstream answer carries at most
MaxRecs == 1
\* client calls made in one behaviour of SpecCache
MaxCalls == 2
\* the clock of SpecCache stops here (seconds)
MaxTime == 350

(***************************************************************************)
(* Program constants.                                                      *)
(***************************************************************************)
\* config.cache.ttl, and the `|| 300` default of both clients (seconds)
DefaultTTL == 300
\* retryRequest(fn, maxRetries = 3)
MaxRetries == 3
\* const timeframe = parsed.timeframe || 14
DefaultTimeframe == 14

\* extractTimeframe's `return null`: no pattern gives 0 days
NoTimeframe == 0

\* null and undefined, where the value is otherwise a string
Nil == "nil"

Min(a, b) == IF a <= b THEN a ELSE b

(***************************************************************************)
(* Strings, character by character (JavaScript's String operations).       *)
(***************************************************************************)
UpperStr == "ABCDEFGHIJKLMNOPQRSTUVWXYZ"
LowerStr == "abcdefghijklmnopqrstuvwxyz"
DigitStr == "0123456789"

Ch(s, i) == SubSeq(s, i, i)

UpperSet == {Ch(UpperStr, i) : i \in 1..26}
LowerSet == {Ch(LowerStr, i) : i \in 1..26}
DigitSet == {Ch(DigitStr, i) : i \in 1..10}
\* \s of the inputs considered (blank, tab, line feed)
SpaceSet == {" ", "\t", "\n"}
\* \w
WordCharSet == UpperSet \cup LowerSet \cup DigitSet \cup {"_"}

ToLowerCh(c) ==
  IF c \in UpperSet
    THEN Ch(LowerStr, CHOOSE i \in 1..26 : Ch(UpperStr, i) = c)
    ELSE c

\* String.prototype.toLowerCase
ToLower(s) ==
  LET f[i \in 0..Len(s)] ==
        IF i = 0 THEN "" ELSE f[i - 1] \o ToLowerCh(Ch(s, i))
  IN f[Len(s)]

\* the literal w (lower case) matches s at position p, ignoring case (flag i)
MatchesAtCI(s, p, w) ==
  /\ p >= 1
  /\ p + Len(w) - 1 <= Len(s)
  /\ ToLower(SubSeq(s, p, p + Len(w) - 1)) = w

IsSpaceAt(s, p) == p >= 1 /\ p <= Len(s) /\ Ch(s, p) \in SpaceSet

\* the first position >= p that holds no white space (Len(s) + 1 if none):
\* where a greedy \s* started at p ends
SkipSpaces(s, p) ==
  LET f[i \in p..(Len(s) + 1)] ==
        IF i > Len(s) THEN i
        ELSE IF Ch(s, i) \in SpaceSet THEN f[i + 1] ELSE i
  IN f[p]

\* the first position >= p that holds no character of cs
SkipSet(s, p, cs) ==
  LET f[i \in p..(Len(s) + 1)] ==
        IF i > Len(s) THEN i
        ELSE IF Ch(s, i) \in cs THEN f[i + 1] ELSE i
  IN f[p]

\* String.prototype.trim
Trim(s) ==
  LET a == SkipSpaces(s, 1)
      g[i \in 0..Len(s)] ==
        IF i = 0 THEN 0
        ELSE IF Ch(s, i) \in SpaceSet THEN g[i - 1] ELSE i
      b == g[Len(s)]
  IN IF a > b THEN "" ELSE SubSeq(s, a, b)

\* s.split(/\s+/) of a trimmed string: its words (JavaScript gives [""] for "")
SplitWords(s) ==
  LET f[p \in 1..(Len(s) + 1)] ==
        IF p > Len(s) THEN << >>
        ELSE LET e == SkipSet(s, p, {Ch(s, i) : i \in 1..Len(s)} \ SpaceSet)
             IN <<SubSeq(s, p, e - 1)>> \o
                  (IF e > Len(s) THEN << >> ELSE f[SkipSpaces(s, e)])
  IN IF s = "" THEN <<"">> ELSE f[1]

\* Array.prototype.join
Join(ws, sep) ==
  LET f[i \in 0..Len(ws)] ==
        IF i = 0 THEN ""
        ELSE IF i = 1 THEN ws[1] ELSE f[i - 1] \o sep \o ws[i]
  IN f[Len(ws)]

SeqToSet(q) == {q[i] : i \in 1..Len(q)}


\* String.prototype.includes
Includes(s, w) ==
  \E p \in 1..Len(s) : p + Len(w) - 1 <= Len(s) /\ SubSeq(s, p, p + Len(w) - 1) = w

(***************************************************************************)
(* QueryParser (processors/query-parser.js).                               *)
(***************************************************************************)
\* this.timePatterns: each pattern an alternation of phrases, a phrase its
\* literals joined by \s+; all carry the flags g and i
timePatterns ==
  << [alts |-> << <<"this", "week">> >>, days |-> 7],
     [alts |-> << <<"last", "week">> >>, days |-> 14],
     [alts |-> << <<"this", "month">> >>, days |-> 30],
     [alts |-> << <<"last", "month">> >>, days |-> 60],
     [alts |-> << <<"recently">>, <<"lately">>, <<"these", "days">> >>, days |-> 14],
     [alts |-> << <<"today">> >>, days |-> 1],
     [alts |-> << <<"yesterday">> >>, days |-> 2] >>

NumPatterns == Len(timePatterns)

\* the phrase matches s at position q: the position after the match, else 0
RECURSIVE MatchPhraseFrom(_, _, _, _)
MatchPhraseFrom(s, q, phrase, i) ==
  IF ~MatchesAtCI(s, q, phrase[i]) THEN 0
  ELSE LET e == q + Len(phrase[i])
       IN IF i = Len(phrase) THEN e
          ELSE IF ~IsSpaceAt(s, e) THEN 0
          ELSE MatchPhraseFrom(s, SkipSpaces(s, e), phrase, i + 1)

\* the alternation matches s at position p: the first alternative that does
\* decides; the position after the match, else 0
MatchAltsAt(s, p, alts) ==
  LET hits == {a \in 1..Len(alts) : MatchPhraseFrom(s, p, alts[a], 1) # 0}
  IN IF hits = {} THEN 0
     ELSE MatchPhraseFrom(s, p, alts[CHOOSE a \in hits : \A b \in hits : a <= b], 1)

\* RegExp.prototype.test of a global (g) pattern: the search starts at
\* lastIndex (0-based) and leaves lastIndex after the match, or at 0 when
\* nothing matches
RegExpTest(alts, s, li) ==
  LET starts == {p \in (li + 1)..Len(s) : MatchAltsAt(s, p, alts) # 0}
  IN IF li > Len(s) \/ starts = {}
       THEN [found |-> FALSE, lastIndex |-> 0]
       ELSE LET p == CHOOSE x \in starts : \A y \in starts : x <= y
            IN [found |-> TRUE, lastIndex |-> MatchAltsAt(s, p, alts) - 1]

\* extractTimeframe: the patterns in order, each tested on the parser's own
\* RegExp object; li is the lastIndex of every pattern before the call
RECURSIVE TimeframeFrom(_, _, _)
TimeframeFrom(query, li, k) ==
  IF k > NumPatterns THEN [days |-> NoTimeframe, lastIndex |-> li]
  ELSE LET r == RegExpTest(timePatterns[k].alts, query, li[k])
           li2 == [li EXCEPT ![k] = r.lastIndex]
       IN IF r.found THEN [days |-> timePatterns[k].days, lastIndex |-> li2]
          ELSE TimeframeFrom(query, li2, k + 1)

extractTimeframe(query, li) == TimeframeFrom(query, li, 1)

\* isCommonWord
commonWords ==
  {"what", "show", "tell", "give", "list", "find", "is", "has", "have",
   "was", "were", "does", "did", "working", "been", "doing", "up", "on",
   "committed", "created", "recent", "recently", "lately", "these", "days",
   "week", "month", "jira", "github", "ticket", "issue", "commit", "pull",
   "request", "pr", "code", "repository", "repo"}

isCommonWord(word) == ToLower(word) \in commonWords

\* .replace(/^(what|show|tell|give|list|find)\s+(me|us)?/gi, '')
StripQuestionWord(s) ==
  LET ws == {"what", "show", "tell", "give", "list", "find"}
  IN IF \E w \in ws : MatchesAtCI(s, 1, w) /\ IsSpaceAt(s, Len(w) + 1)
       THEN LET q == SkipSpaces(s, 5)
                q2 == IF MatchesAtCI(s, q, "me") \/ MatchesAtCI(s, q, "us")
                        THEN q + 2 ELSE q
            IN SubSeq(s, q2, Len(s))
       ELSE s

\* .replace(/^(is|has|have|was|were|does|did)\s+/gi, '')
StripAuxiliary(s) ==
  LET ws == {"is", "has", "have", "was", "were", "does", "did"}
      hit == {w \in ws : MatchesAtCI(s, 1, w) /\ IsSpaceAt(s, Len(w) + 1)}
  IN IF hit = {} THEN s
     ELSE LET w == CHOOSE x \in hit : TRUE
          IN SubSeq(s, SkipSpaces(s, Len(w) + 1), Len(s))

\* .replace(/\s+(working|been|doing|up|on|committed|created)/gi, ''): every
\* white-space run followed by one of the words goes, with that word
RECURSIVE StripVerbsFrom(_, _, _)
StripVerbsFrom(s, p, out) ==
  LET ws == {"working", "been", "doing", "up", "on", "committed", "created"}
  IN IF p > Len(s) THEN out
     ELSE IF Ch(s, p) \in SpaceSet
       THEN LET q == SkipSpaces(s, p)
                hit == {w \in ws : MatchesAtCI(s, q, w)}
            IN IF hit = {}
                 THEN StripVerbsFrom(s, q, out \o SubSeq(s, p, q - 1))
                 ELSE StripVerbsFrom(s, q + Len(CHOOSE w \in hit : TRUE), out)
       ELSE StripVerbsFrom(s, p + 1, out \o Ch(s, p))

StripVerbs(s) == StripVerbsFrom(s, 1, "")

\* /^[A-Z][a-z]+$/.test(word)
IsCapitalized(word) ==
  /\ Len(word) >= 2
  /\ Ch(word, 1) \in UpperSet
  /\ \A i \in 2..Len(word) : Ch(word, i) \in LowerSet

\* [A-Z][a-z]+ matched at p, greedy: the position after it, else 0
CapWordAt(s, p) ==
  IF p >= 1 /\ p < Len(s) /\ Ch(s, p) \in UpperSet /\ Ch(s, p + 1) \in LowerSet
    THEN SkipSet(s, p + 1, LowerSet)
    ELSE 0

\* \b between the characters p - 1 and p
BoundaryAt(s, p) ==
  LET before == p > 1 /\ Ch(s, p - 1) \in WordCharSet
      after == p <= Len(s) /\ Ch(s, p) \in WordCharSet
  IN before # after

\* cleaned.match(/\b[A-Z][a-z]+(?:\s+[A-Z][a-z]+)?\b/): the text of the
\* leftmost match, else Nil
FirstCapitalizedRun(s) ==
  LET EndAt(p) ==
        IF ~BoundaryAt(s, p) THEN 0
        ELSE LET e == CapWordAt(s, p)
             IN IF e = 0 THEN 0
                ELSE LET e2 == IF IsSpaceAt(s, e)
                                 THEN CapWordAt(s, SkipSpaces(s, e)) ELSE 0
                     IN IF e2 # 0 /\ BoundaryAt(s, e2) THEN e2
                        ELSE IF BoundaryAt(s, e) THEN e ELSE 0
      starts == {p \in 1..Len(s) : EndAt(p) # 0}
  IN IF starts = {} THEN Nil
     ELSE LET p == CHOOSE x \in starts : \A y \in starts : x <= y
          IN SubSeq(s, p, EndAt(p) - 1)

\* extractName: the name, else Nil (null)
extractName(query) ==
  LET cleaned == Trim(StripVerbs(StripAuxiliary(StripQuestionWord(query))))
      words == SplitWords(cleaned)
      cand == SelectSeq(words, LAMBDA w : IsCapitalized(w) /\ ~isCommonWord(w))
      nameCandidates == IF Len(cand) > 3 THEN SubSeq(cand, 1, 3) ELSE cand
  IN IF Len(nameCandidates) > 0 THEN Join(nameCandidates, " ")
     ELSE FirstCapitalizedRun(cleaned)

\* extractIntent
extractIntent(query) ==
  LET normalized == ToLower(query)
  IN IF Includes(normalized, "pull request") \/ Includes(normalized, "pr")
       THEN "pull_requests"
     ELSE IF Includes(normalized, "commit") THEN "commits"
     ELSE IF Includes(normalized, "ticket") \/ Includes(normalized, "issue")
       THEN "jira_issues"
     ELSE IF Includes(normalized, "repository") \/ Includes(normalized, "repo")
       THEN "repositories"
     ELSE "general"

\* this.platformKeywords
platformKeywords ==
  [jira |-> {"jira", "ticket", "issue", "task", "bug", "story"},
   github |-> {"github", "commit", "pull request", "pr", "code", "repository", "repo"}]

\* extractPlatform
extractPlatform(query) ==
  LET normalized == ToLower(query)
      jiraScore == Cardinality({kw \in platformKeywords.jira : Includes(normalized, kw)})
      githubScore == Cardinality({kw \in platformKeywords.github : Includes(normalized, kw)})
  IN IF jiraScore > githubScore THEN "jira"
     ELSE IF githubScore > jiraScore THEN "github"
     ELSE "both"

\* parse: the ParsedQuery, and the lastIndex the call leaves in the patterns
parse(query, li) ==
  LET tf == extractTimeframe(query, li)
  IN [parsed |-> [originalQuery |-> query,
                  name |-> extractName(query),
                  timeframe |-> tf.days,
                  intent |-> extractIntent(query),
                  platform |-> extractPlatform(query)],
      lastIndex |-> tf.lastIndex]

(***************************************************************************)
(* DataEnricher (processors/data-enricher.js).  An issue is a record with  *)
(* key, summary, status, priority, type; a commit one with sha, message,   *)
(* date, url, repository, jiraTickets; a pull request one with number,     *)
(* title, repository; a repository one with name, commitCount, lastCommit. *)
(***************************************************************************)
\* the tally obj[k] = (obj[k] || 0) + 1 over the issues, by the field sel
TallyBy(issues, sel(_)) ==
  [k \in {sel(issues[i]) : i \in 1..Len(issues)} |->
     Cardinality({i \in 1..Len(issues) : sel(issues[i]) = k})]

highPriorityNames == {"High", "Highest", "Critical"}

CountHighPriority(issues) ==
  Cardinality({i \in 1..Len(issues) : issues[i].priority \in highPriorityNames})

\* summarizeJira
summarizeJira(issues) ==
  IF Len(issues) = 0
    THEN [count |-> 0, byStatus |-> << >>, byPriority |-> << >>, byType |-> << >>]
    ELSE [count |-> Len(issues),
          byStatus |-> TallyBy(issues, LAMBDA i : i.status),
          byPriority |-> TallyBy(issues, LAMBDA i : i.priority),
          byType |-> TallyBy(issues, LAMBDA i : i.type),
          highPriority |-> CountHighPriority(issues)]

\* summarizeGitHub
summarizeGitHub(githubData) ==
  LET repos == githubData.repositories
  IN [commitCount |-> Len(githubData.commits),
      prCount |-> Len(githubData.pullRequests),
      repositoryCount |-> Len(repos),
      activeRepositories |-> [i \in 1..Min(5, Len(repos)) |-> repos[i].name]]

\* issues.find(i => i.key === ticketKey), for a key that some issue has
FindIssue(issues, ticketKey) ==
  issues[CHOOSE i \in 1..Len(issues) :
           /\ issues[i].key = ticketKey
           /\ \A j \in 1..(i - 1) : issues[j].key # ticketKey]

\* pairs that join every referenced ticket with the first issue of the list
LinksOfCommitAnyTicket(commit, issues) ==
  IF Len(issues) = 0 THEN << >>
  ELSE [k \in 1..Len(commit.jiraTickets) |->
          [commit |-> [sha |-> commit.sha, message |-> commit.message,
                       date |-> commit.date, url |-> commit.url,
                       repository |-> commit.repository],
           ticket |-> [key |-> issues[1].key, summary |-> issues[1].summary,
                       status |-> issues[1].status, url |-> issues[1].url]]]

\* the pairs of one commit
LinksOfCommit(commit, issues) ==
  LET issueKeys == {issues[i].key : i \in 1..Len(issues)}
      f[k \in 0..Len(commit.jiraTickets)] ==
        IF k = 0 THEN << >>
        ELSE IF commit.jiraTickets[k] \in issueKeys
          THEN LET issue == FindIssue(issues, commit.jiraTickets[k])
               IN Append(f[k - 1],
                         [commit |-> [sha |-> commit.sha, message |-> commit.message,
                                      date |-> commit.date, url |-> commit.url,
                                      repository |-> commit.repository],
                          ticket |-> [key |-> issue.key, summary |-> issue.summary,
                                      status |-> issue.status, url |-> issue.url]])
          ELSE f[k - 1]
  IN f[Len(commit.jiraTickets)]

\* a linking that keeps, for each ticket, the pair of the first commit only
linkCommitsToTicketsOncePerTicket(commits, issues) ==
  LET f[c \in 0..Len(commits)] ==
        IF c = 0 THEN << >> ELSE f[c - 1] \o LinksOfCommit(commits[c], issues)
      all == f[Len(commits)]
      firsts == {i \in 1..Len(all) : \A j \in 1..(i - 1) : all[j].ticket.key # all[i].ticket.key}
      g[i \in 0..Len(all)] ==
        IF i = 0 THEN << >> ELSE IF i \in firsts THEN Append(g[i - 1], all[i]) ELSE g[i - 1]
  IN g[Len(all)]

\* linkCommitsToTickets
linkCommitsToTickets(commits, issues) ==
  LET f[c \in 0..Len(commits)] ==
        IF c = 0 THEN << >> ELSE f[c - 1] \o LinksOfCommit(commits[c], issues)
  IN f[Len(commits)]

ActivityScore(nIssues, nCommits, nPrs) == (nIssues * 2) + (nCommits * 1) + (nPrs * 3)

\* cut points that include the threshold
ActivityLevelInclusive(activityScore) ==
  IF activityScore >= 20 THEN "high"
  ELSE IF activityScore >= 10 THEN "medium"
  ELSE "low"

ActivityLevel(activityScore) ==
  IF activityScore > 20 THEN "high"
  ELSE IF activityScore > 10 THEN "medium"
  ELSE "low"

\* a total that leaves the pull requests out
TotalItemsNoPulls(nIssues, nCommits, nPrs) == nIssues + nCommits

TotalItems(nIssues, nCommits, nPrs) == nIssues + nCommits + nPrs

\* calculateMetrics (timeframe || 'recent' is kept as the number, 0 for 'recent')
calculateMetrics(jiraData, githubData, timeframe) ==
  LET commits == githubData.commits
      issues == jiraData.issues
      prs == githubData.pullRequests
      activityScore == ActivityScore(Len(issues), Len(commits), Len(prs))
  IN [activityScore |-> activityScore,
      activityLevel |-> ActivityLevel(activityScore),
      totalItems |-> TotalItems(Len(issues), Len(commits), Len(prs)),
      timeframe |-> timeframe]

\* thresholds that include the cut point
identifyWorkPatternsInclusive(jiraData, githubData) ==
  LET issues == jiraData.issues
      commits == githubData.commits
      prs == githubData.pullRequests
      highPriorityCount == CountHighPriority(issues)
      repoCount == Cardinality({commits[i].repository : i \in 1..Len(commits)})
      linked == linkCommitsToTickets(commits, issues)
  IN (IF highPriorityCount >= 3
        THEN << [type |-> "multiple_high_priority", count |-> highPriorityCount,
                 impact |-> "high"] >>
        ELSE << >>)
     \o (IF repoCount >= 5
           THEN << [type |-> "multi_repository", count |-> repoCount,
                    impact |-> "medium"] >>
           ELSE << >>)
     \o (IF Len(prs) >= 5
           THEN << [type |-> "many_open_prs", count |-> Len(prs), impact |-> "medium"] >>
           ELSE << >>)
     \o (IF 2 * Len(linked) >= Len(commits)
           THEN << [type |-> "good_tracking", count |-> Len(linked),
                    impact |-> "positive"] >>
           ELSE << >>)

\* identifyWorkPatterns
identifyWorkPatterns(jiraData, githubData) ==
  LET issues == jiraData.issues
      commits == githubData.commits
      prs == githubData.pullRequests
      highPriorityCount == CountHighPriority(issues)
      repoCount == Cardinality({commits[i].repository : i \in 1..Len(commits)})
      linked == linkCommitsToTickets(commits, issues)
  IN (IF highPriorityCount > 3
        THEN << [type |-> "multiple_high_priority", count |-> highPriorityCount,
                 impact |-> "high"] >>
        ELSE << >>)
     \o (IF repoCount > 5
           THEN << [type |-> "multi_repository", count |-> repoCount,
                    impact |-> "medium"] >>
           ELSE << >>)
     \o (IF Len(prs) > 5
           THEN << [type |-> "many_open_prs", count |-> Len(prs), impact |-> "medium"] >>
           ELSE << >>)
     \o (IF 2 * Len(linked) > Len(commits)
           THEN << [type |-> "good_tracking", count |-> Len(linked),
                    impact |-> "positive"] >>
           ELSE << >>)

\* enrich
enrich(jiraData, githubData, timeframe) ==
  [jira |-> [activeIssues |-> jiraData.issues,
             recentActivity |-> jiraData.recentActivity,
             summary |-> summarizeJira(jiraData.issues)],
   github |-> [commits |-> githubData.commits,
               pullRequests |-> githubData.pullRequests,
               repositories |-> githubData.repositories,
               summary |-> summarizeGitHub(githubData)],
   linked |-> linkCommitsToTickets(githubData.commits, jiraData.issues),
   metrics |-> calculateMetrics(jiraData, githubData, timeframe),
   workPatterns |-> identifyWorkPatterns(jiraData, githubData)]

(***************************************************************************)
(* Upstream answers.  An answer to one HTTP request is a status (0: the    *)
(* request failed without a response) and a body; a body is well-formed    *)
(* (ok) with its items, or malformed.                                      *)
(***************************************************************************)
FailBody == [ok |-> FALSE, items |-> << >>]
Fail(status) == [status |-> status, body |-> FailBody]
Ok(items) == [status |-> 200, body |-> [ok |-> TRUE, items |-> items]]
Malformed == [status |-> 200, body |-> FailBody]

\* the statuses after which retryRequest tries again
RetryableStatuses == {429, 500}
\* the other failures: unauthorized, not found, gone, no response
FinalFailures == {401, 404, 410, 0}
FailureStatuses == RetryableStatuses \cup FinalFailures

\* the answers to the attempts of one retryRequest, as far as it asks: all but
\* the last are retryable failures, the last is one of `finals` or, at the
\* last attempt, any failure
RunsOf(finals) ==
  UNION {
    { [i \in 1..(n + 1) |-> IF i <= n THEN Fail(f[i]) ELSE last] :
        f \in [1..n -> RetryableStatuses],
        last \in finals \cup {Fail(st) : st \in
                   IF n + 1 = MaxRetries THEN FailureStatuses ELSE FinalFailures} }
    : n \in 0..(MaxRetries - 1) }

\* null, where the value is otherwise a record
Null == [null |-> TRUE]

JiraUserMaya == [accountId |-> "acc-1", displayName |-> "Maya Patel"]
GithubUserMaya == [login |-> "maya", name |-> "Maya"]

\* the n-th issue of the tracker (priority Nil: the issue has none)
RawIssue(n) ==
  [key |-> "ABC-" \o ToString(n),
   summary |-> "Issue " \o ToString(n),
   status |-> IF n % 2 = 1 THEN "In Progress" ELSE "To Do",
   priority |-> IF n % 3 = 0 THEN Nil ELSE IF n % 2 = 1 THEN "High" ELSE "Medium",
   issuetype |-> "Task",
   project |-> "Alpha",
   created |-> n,
   updated |-> 10 + n]

\* the n-th commit of the code host
RawCommit(n) ==
  [sha |-> "c0ffee" \o ToString(n) \o "abcdef",
   message |-> IF n % 2 = 1
                 THEN "fix ABC-" \o ToString(n) \o " and ABC-" \o ToString(n) \o " again"
                 ELSE "Update docs\n\nrefs abc-" \o ToString(n) \o ", XYZ-7",
   authorName |-> "Maya",
   date |-> 20 - n,
   html_url |-> "https://github.com/org/repo/commit/" \o ToString(n),
   repository |-> IF n % 3 = 0 THEN Nil ELSE "org/repo" \o ToString(n % 2)]

\* the n-th open pull request: its search item and its detail
RawPullRequest(n) ==
  [number |-> n,
   title |-> "PR " \o ToString(n),
   state |-> "open",
   created_at |-> n,
   updated_at |-> 10 + n,
   html_url |-> "https://github.com/org/repo/pull/" \o ToString(n),
   headRepo |-> IF n % 3 = 0 THEN Nil ELSE "org/repo" \o ToString(n % 2),
   baseRef |-> "main",
   headRef |-> "feature-" \o ToString(n)]

FirstN(Item(_), n) == [i \in 1..n |-> Item(i)]

\* what the endpoints answer with status 200
UserSearchAnswers == {Ok(<< >>), Ok(<<JiraUserMaya>>)}
IssueSearchAnswers == {Malformed} \cup {Ok(FirstN(RawIssue, n)) : n \in 0..MaxRecs}
GithubUserAnswers == {Ok(<<GithubUserMaya>>)}
GithubUserSearchAnswers == {Malformed} \cup {Ok(<< >>), Ok(<<GithubUserMaya>>)}
CommitSearchAnswers == {Malformed} \cup {Ok(FirstN(RawCommit, n)) : n \in 0..MaxRecs}
PullSearchAnswers == {Malformed} \cup {Ok(FirstN(RawPullRequest, n)) : n \in 0..MaxRecs}

(***************************************************************************)
(* NodeCache, as both clients use it: get gives nothing for a missing or   *)
(* expired key (an entry lives while its expiry time is not in the past).  *)
(***************************************************************************)
EmptyCache == << >>

\* a cache that never has the key
CacheNeverLive(cache, key, now) == FALSE

CacheLive(cache, key, now) == key \in DOMAIN cache /\ ~(cache[key].t < now)

CacheGet(cache, key, now) == cache[key].v

CacheSet(cache, key, v, now, ttl) ==
  [k \in DOMAIN cache \cup {key} |-> IF k = key THEN [v |-> v, t |-> now + ttl] ELSE cache[k]]

(***************************************************************************)
(* JiraClient (clients/jira-client.js).  The result of a client operation  *)
(* is its promise's outcome: st fulfilled or rejected, the value v, store  *)
(* (the value is written to the cache), and the network attempts and the   *)
(* back-off delays (ms) it took.                                           *)
(***************************************************************************)
\* a schedule that shortens the delay at each attempt
Pow2Down(n) == 2 ^ (MaxRetries - n)

\* a power that does not grow
Pow2Flat(n) == 1

\* Math.pow(2, n)
Pow2(n) == 2 ^ n

\* retryRequest(fn, maxRetries): run[i + 1] answers attempt i
RECURSIVE RetryFrom(_, _, _, _)
RetryFrom(run, maxRetries, i, waits) ==
  LET a == run[i + 1]
  IN IF a.status = 200
       THEN [ok |-> TRUE, answer |-> a, attempts |-> i + 1, waits |-> waits]
     ELSE IF i = maxRetries - 1
       THEN [ok |-> FALSE, answer |-> a, attempts |-> i + 1, waits |-> waits]
     ELSE IF a.status = 429
       THEN RetryFrom(run, maxRetries, i + 1, Append(waits, Pow2(i) * 1000))
     ELSE IF a.status >= 500
       THEN RetryFrom(run, maxRetries, i + 1, Append(waits, 1000 * (i + 1)))
     ELSE [ok |-> FALSE, answer |-> a, attempts |-> i + 1, waits |-> waits]

\* a loop that makes one attempt more than maxRetries
retryRequestOnceMore(run) == RetryFrom(run, MaxRetries + 1, 0, << >>)

\* a loop that also tries again, after the server-fault delay, when the
\* request failed without a response
RECURSIVE RetryUnanswered(_, _, _)
RetryUnanswered(run, i, waits) ==
  LET a == run[i + 1]
  IN IF a.status = 200
       THEN [ok |-> TRUE, answer |-> a, attempts |-> i + 1, waits |-> waits]
     ELSE IF i = MaxRetries - 1
       THEN [ok |-> FALSE, answer |-> a, attempts |-> i + 1, waits |-> waits]
     ELSE IF a.status = 429
       THEN RetryUnanswered(run, i + 1, Append(waits, Pow2(i) * 1000))
     ELSE IF a.status >= 500 \/ a.status = 0
       THEN RetryUnanswered(run, i + 1, Append(waits, 1000 * (i + 1)))
     ELSE [ok |-> FALSE, answer |-> a, attempts |-> i + 1, waits |-> waits]

retryRequestUnanswered(run) == RetryUnanswered(run, 0, << >>)

retryRequest(run) == RetryFrom(run, MaxRetries, 0, << >>)

Fulfilled(v, store, r) ==
  [st |-> "fulfilled", v |-> v, store |-> store, attempts |-> r.attempts, waits |-> r.waits]
Rejected(r) ==
  [st |-> "rejected", v |-> << >>, store |-> FALSE, attempts |-> r.attempts, waits |-> r.waits]

\* a key that keeps the case of the name
JiraUserKeyExact(name) == "user:" \o name

JiraUserKey(name) == "user:" \o ToLower(name)
JiraIssuesKey(accountId) == "issues:" \o accountId

\* findUserByName without its catch block
findUserByNameUncaught(run) ==
  LET r == retryRequest(run)
  IN IF r.ok /\ r.answer.body.ok
       THEN IF Len(r.answer.body.items) > 0
              THEN Fulfilled(r.answer.body.items[1], TRUE, r)
              ELSE Fulfilled(Null, FALSE, r)
       ELSE Rejected(r)

\* findUserByName after a cache miss
findUserByName(run) ==
  LET r == retryRequest(run)
  IN IF r.ok /\ r.answer.body.ok /\ Len(r.answer.body.items) > 0
       THEN Fulfilled(r.answer.body.items[1], TRUE, r)
       ELSE Fulfilled(Null, FALSE, r)

\* issue => ({key, summary, status, priority || 'None', type, ...})
NormalizeIssue(issue) ==
  [key |-> issue.key,
   summary |-> issue.summary,
   status |-> issue.status,
   priority |-> IF issue.priority = Nil THEN "None" ELSE issue.priority,
   type |-> issue.issuetype,
   project |-> issue.project,
   created |-> issue.created,
   updated |-> issue.updated,
   url |-> "/browse/" \o issue.key]

NormalizeIssues(items) == [i \in 1..Len(items) |-> NormalizeIssue(items[i])]

\* getAssignedIssues returning [] after every failure
getAssignedIssuesLenient(run) ==
  LET r == retryRequest(run)
  IN IF r.ok /\ r.answer.body.ok
       THEN Fulfilled(NormalizeIssues(r.answer.body.items), TRUE, r)
       ELSE Fulfilled(<< >>, FALSE, r)

\* getAssignedIssues rethrowing every failure
getAssignedIssuesStrict(run) ==
  LET r == retryRequest(run)
  IN IF r.ok /\ r.answer.body.ok
       THEN Fulfilled(NormalizeIssues(r.answer.body.items), TRUE, r)
       ELSE Rejected(r)

\* getAssignedIssues after a cache miss
getAssignedIssues(run) ==
  LET r == retryRequest(run)
  IN IF r.ok
       THEN IF r.answer.body.ok
              THEN Fulfilled(NormalizeIssues(r.answer.body.items), TRUE, r)
              ELSE Rejected(r)
     ELSE IF r.answer.status = 404 \/ r.answer.status = 410
       THEN Fulfilled(<< >>, FALSE, r)
     ELSE Rejected(r)

\* issue => ({key, summary, status, priority || 'None', type, updated, url})
NormalizeActivity(issue) ==
  [key |-> issue.key,
   summary |-> issue.summary,
   status |-> issue.status,
   priority |-> IF issue.priority = Nil THEN "None" ELSE issue.priority,
   type |-> issue.issuetype,
   updated |-> issue.updated,
   url |-> "/browse/" \o issue.key]

\* getRecentActivity without its catch block
getRecentActivityUncaught(run) ==
  LET r == retryRequest(run)
  IN IF r.ok /\ r.answer.body.ok
       THEN Fulfilled([i \in 1..Len(r.answer.body.items) |->
                         NormalizeActivity(r.answer.body.items[i])], FALSE, r)
       ELSE Rejected(r)

\* getRecentActivity (it keeps no cache)
getRecentActivity(run) ==
  LET r == retryRequest(run)
  IN IF r.ok /\ r.answer.body.ok
       THEN Fulfilled([i \in 1..Len(r.answer.body.items) |->
                         NormalizeActivity(r.answer.body.items[i])], FALSE, r)
       ELSE Fulfilled(<< >>, FALSE, r)

(***************************************************************************)
(* GitHubClient (clients/github-client.js).                                *)
(***************************************************************************)
\* a makeRequest that returns null after every failure
makeRequestQuiet(a) ==
  IF a.status = 200 THEN [t |-> "response", body |-> a.body]
  ELSE [t |-> "null", body |-> FailBody]

\* makeRequest, the request itself: the response, null (not found,
\* unauthorized) or a throw
makeRequest(a) ==
  IF a.status = 200 THEN [t |-> "response", body |-> a.body]
  ELSE IF a.status = 404 \/ a.status = 401 THEN [t |-> "null", body |-> FailBody]
  ELSE [t |-> "throw", body |-> FailBody]

GithubUserKey(username) == "gh-user:" \o ToLower(username)
GithubCommitsKey(username, days) == "commits:" \o username \o ":" \o ToString(days)
GithubPullsKey(username) == "prs:" \o username

Direct(v, store, n) ==
  [st |-> "fulfilled", v |-> v, store |-> store, attempts |-> n, waits |-> << >>]

\* findUser without the search after a failed lookup
findUserNoSearch(direct, search) ==
  IF direct.status = 200 /\ direct.body.ok /\ Len(direct.body.items) > 0
    THEN Direct(direct.body.items[1], TRUE, 1)
    ELSE Direct(Null, FALSE, 1)

\* a findUser that searches whenever the direct lookup gave no response
findUserSearchOnNull(direct, search) ==
  LET r == makeRequest(direct)
  IN IF r.t = "response"
       THEN IF r.body.ok /\ Len(r.body.items) > 0
              THEN Direct(r.body.items[1], TRUE, 1)
              ELSE Direct(Null, FALSE, 1)
     ELSE LET q == makeRequest(search)
          IN IF q.t = "response" /\ q.body.ok /\ Len(q.body.items) > 0
               THEN Direct(q.body.items[1], TRUE, 2)
               ELSE Direct(Null, FALSE, 2)

\* findUser after a cache miss, a token configured: the direct lookup, and the
\* search when the lookup throws
findUser(direct, search) ==
  LET r == makeRequest(direct)
  IN IF r.t = "response"
       THEN IF r.body.ok /\ Len(r.body.items) > 0
              THEN Direct(r.body.items[1], TRUE, 1)
              ELSE Direct(Null, FALSE, 1)
     ELSE IF r.t = "null" THEN Direct(Null, FALSE, 1)
     ELSE LET q == makeRequest(search)
          IN IF q.t = "response" /\ q.body.ok /\ Len(q.body.items) > 0
               THEN Direct(q.body.items[1], TRUE, 2)
               ELSE Direct(Null, FALSE, 2)

IsLetter(c) == c \in UpperSet \/ c \in LowerSet

\* message.match(/([A-Z]+-\d+)/gi) || []: every run of letters followed by a
\* hyphen and digits, left to right
RECURSIVE TicketMatchesFrom(_, _)
TicketMatchesFrom(message, p) ==
  IF p > Len(message) THEN << >>
  ELSE IF IsLetter(Ch(message, p))
    THEN LET e == SkipSet(message, p, UpperSet \cup LowerSet)
             d == IF e <= Len(message) /\ Ch(message, e) = "-"
                    THEN SkipSet(message, e + 1, DigitSet) ELSE 0
         IN IF d > e + 1
              THEN <<SubSeq(message, p, d - 1)>> \o TicketMatchesFrom(message, d)
              ELSE TicketMatchesFrom(message, e)
    ELSE TicketMatchesFrom(message, p + 1)

\* [...new Set(list)]: the first occurrence of each element, in order
Unique(list) ==
  LET f[i \in 0..Len(list)] ==
        IF i = 0 THEN << >>
        ELSE IF list[i] \in SeqToSet(f[i - 1]) THEN f[i - 1] ELSE Append(f[i - 1], list[i])
  IN f[Len(list)]

ExtractTickets(message) == Unique(TicketMatchesFrom(message, 1))

\* message.split('\n')[0]
FirstLine(message) ==
  LET e == SkipSet(message, 1, {Ch(message, i) : i \in 1..Len(message)} \ {"\n"})
  IN SubSeq(message, 1, e - 1)

\* item => ({sha, message, author, date, url, repository, jiraTickets})
NormalizeCommit(item) ==
  [sha |-> SubSeq(item.sha, 1, Min(7, Len(item.sha))),
   message |-> FirstLine(item.message),
   author |-> item.authorName,
   date |-> item.date,
   url |-> item.html_url,
   repository |-> IF item.repository = Nil THEN "unknown" ELSE item.repository,
   jiraTickets |-> ExtractTickets(item.message)]

\* a getRecentCommits that writes the empty list of a failed search to the
\* cache
getRecentCommitsStoreFault(a) ==
  LET r == makeRequest(a)
  IN IF r.t = "response" /\ r.body.ok
       THEN Direct([i \in 1..Len(r.body.items) |-> NormalizeCommit(r.body.items[i])],
                   TRUE, 1)
       ELSE Direct(<< >>, TRUE, 1)

\* getRecentCommits after a cache miss
getRecentCommits(a) ==
  LET r == makeRequest(a)
  IN IF r.t = "response" /\ r.body.ok
       THEN Direct([i \in 1..Len(r.body.items) |-> NormalizeCommit(r.body.items[i])],
                   TRUE, 1)
       ELSE Direct(<< >>, FALSE, 1)

\* pr => ({number, title, state, created, updated, url, repository, ...})
NormalizePullRequest(pr) ==
  [number |-> pr.number,
   title |-> pr.title,
   state |-> pr.state,
   created |-> pr.created_at,
   updated |-> pr.updated_at,
   url |-> pr.html_url,
   repository |-> IF pr.headRepo = Nil THEN "unknown" ELSE pr.headRepo,
   baseBranch |-> pr.baseRef,
   headBranch |-> pr.headRef]

\* a getActivePullRequests that waits for every detail request and keeps
\* the pull requests whose request did not fail (Promise.allSettled)
getActivePullRequestsSettled(search, details) ==
  LET r == makeRequest(search)
  IN IF r.t = "response" /\ r.body.ok
       THEN LET n == Len(r.body.items)
                prResponses == [i \in 1..n |-> makeRequest(details[i])]
                kept == SelectSeq(prResponses,
                                  LAMBDA q : q.t = "response" /\ q.body.ok)
            IN Direct([i \in 1..Len(kept) |-> NormalizePullRequest(kept[i].body.items[1])],
                      TRUE, 1 + n)
       ELSE Direct(<< >>, FALSE, 1)

\* getActivePullRequests after a cache miss: the search, then one detail
\* request for each item found (details[i] answers the i-th)
getActivePullRequests(search, details) ==
  LET r == makeRequest(search)
  IN IF r.t = "response" /\ r.body.ok
       THEN LET n == Len(r.body.items)
                prResponses == [i \in 1..n |-> makeRequest(details[i])]
                kept == SelectSeq(prResponses,
                                  LAMBDA q : q.t = "response" /\ q.body.ok)
            IN IF \E i \in 1..n : prResponses[i].t = "throw"
                 THEN Direct(<< >>, FALSE, 1 + n)
                 ELSE Direct([i \in 1..Len(kept) |-> NormalizePullRequest(kept[i].body.items[1])],
                             TRUE, 1 + n)
       ELSE Direct(<< >>, FALSE, 1)

\* the repositories of the commits, in the order of their first commit, each
\* with its number of commits and the date of its last one
ReposOfCommits(commits) ==
  LET names == Unique([i \in 1..Len(commits) |-> commits[i].repository])
      Of(name) == {i \in 1..Len(commits) : commits[i].repository = name}
  IN [k \in 1..Len(names) |->
        [name |-> names[k],
         commitCount |-> Cardinality(Of(names[k])),
         lastCommit |-> CHOOSE d \in {commits[i].date : i \in Of(names[k])} :
                          \A i \in Of(names[k]) : commits[i].date <= d]]

\* Array.prototype.sort((a, b) => b.lastCommit - a.lastCommit): stable,
\* the latest first
RECURSIVE SortByLastCommit(_)
SortByLastCommit(repos) ==
  IF Len(repos) <= 1 THEN repos
  ELSE LET rest == SortByLastCommit(Tail(repos))
           x == Head(repos)
           before == SelectSeq(rest, LAMBDA r : r.lastCommit > x.lastCommit)
           after == SelectSeq(rest, LAMBDA r : r.lastCommit <= x.lastCommit)
       IN before \o <<x>> \o after

\* getRecentRepositories, from what its call of getRecentCommits returned
getRecentRepositories(commits) ==
  LET sorted == SortByLastCommit(ReposOfCommits(commits))
  IN SubSeq(sorted, 1, Min(10, Len(sorted)))

(***************************************************************************)
(* Errors (utils/errors.js) and ResponseGenerator                          *)
(* (processors/response-generator.js).                                     *)
(***************************************************************************)
UserNotFoundError(userName) ==
  [class |-> "UserNotFoundError", type |-> "USER_NOT_FOUND",
   message |-> "User \"" \o userName \o "\" not found", userName |-> userName]

NoActivityError(userName) ==
  [class |-> "NoActivityError", type |-> "NO_ACTIVITY",
   message |-> "No activity found for \"" \o userName \o "\"", userName |-> userName]

\* what `const { query } = req.body` throws when req.body is undefined
BodyTypeError ==
  [class |-> "TypeError", message |-> "Cannot destructure property 'query' of 'req.body'"]

\* handleError
handleError(error) ==
  IF error.class = "UserNotFoundError"
    THEN [type |-> "USER_NOT_FOUND", message |-> error.message, userName |-> error.userName]
  ELSE IF error.class = "NoActivityError"
    THEN [type |-> "NO_ACTIVITY", message |-> error.message, userName |-> error.userName]
  ELSE IF error.class = "APIError"
    THEN [type |-> "API_ERROR", message |-> error.message, platform |-> error.platform]
  ELSE [type |-> "UNKNOWN_ERROR",
        message |-> IF error.message = "" THEN "An unexpected error occurred"
                    ELSE error.message]

\* generateErrorResponse
generateErrorResponse(error, userName) ==
  IF error.type = "USER_NOT_FOUND"
    THEN "I couldn't find \"" \o userName
         \o "\" in JIRA or GitHub. Please check the spelling or try a different name."
  ELSE IF error.type = "NO_ACTIVITY"
    THEN userName \o " doesn't have any recent activity to show. "
         \o "They might be on vacation or working on something else."
  ELSE IF error.type = "API_ERROR"
    THEN "I encountered an issue fetching data: " \o error.message
         \o ". Please try again in a moment."
  ELSE "Sorry, I encountered an error: " \o error.message \o ". Please try again."

\* generateTemplateResponse (the pictographs of the section titles left out)
generateTemplateResponse(query, enrichedData, userName) ==
  LET jiraSummary == enrichedData.jira.summary
      githubSummary == enrichedData.github.summary
      linked == enrichedData.linked
      metrics == enrichedData.metrics
      issues == enrichedData.jira.activeIssues
      statuses == Unique([i \in 1..Len(issues) |-> issues[i].status])
      Lines(n, Line(_)) ==
        LET f[i \in 0..n] == IF i = 0 THEN "" ELSE f[i - 1] \o Line(i) IN f[n]
      jiraSection ==
        IF jiraSummary.count > 0
          THEN "**JIRA Activity** (" \o ToString(jiraSummary.count) \o " active issues):\n"
               \o (IF jiraSummary.highPriority > 0
                     THEN ToString(jiraSummary.highPriority) \o " high-priority items\n"
                     ELSE "")
               \o "Status: "
               \o Join([i \in 1..Len(statuses) |->
                          statuses[i] \o " (" \o ToString(jiraSummary.byStatus[statuses[i]]) \o ")"],
                       ", ")
               \o "\n\nKey issues:\n"
               \o Lines(Min(5, Len(issues)),
                        LAMBDA i : "  - " \o issues[i].key \o ": " \o issues[i].summary
                                   \o " - " \o issues[i].status
                                   \o " (" \o issues[i].priority \o ")\n")
               \o "\n"
          ELSE "**JIRA**: No active issues found\n\n"
      commits == enrichedData.github.commits
      prs == enrichedData.github.pullRequests
      githubSection ==
        "**GitHub Activity**:\n"
        \o "  - " \o ToString(githubSummary.commitCount) \o " recent commits\n"
        \o "  - " \o ToString(githubSummary.prCount) \o " open pull requests\n"
        \o "  - Active in " \o ToString(githubSummary.repositoryCount) \o " repositories\n"
        \o (IF Len(githubSummary.activeRepositories) > 0
              THEN "  - Repositories: " \o Join(githubSummary.activeRepositories, ", ") \o "\n"
              ELSE "")
        \o (IF Len(commits) > 0
              THEN "\nRecent commits:\n"
                   \o Lines(Min(5, Len(commits)),
                            LAMBDA i : "  - " \o commits[i].message
                                       \o " (" \o commits[i].repository \o ")\n")
              ELSE "")
        \o (IF Len(prs) > 0
              THEN "\nOpen pull requests:\n"
                   \o Lines(Min(5, Len(prs)),
                            LAMBDA i : "  - " \o prs[i].title
                                       \o " (" \o prs[i].repository \o ")\n")
              ELSE "")
      linkedSection ==
        IF Len(linked) > 0
          THEN "\n**Linked Work**: " \o ToString(Len(linked))
               \o " commits are connected to JIRA tickets, showing good tracking!\n"
          ELSE ""
      levelSection ==
        "\n**Activity Level**: " \o metrics.activityLevel
        \o " (" \o ToString(metrics.totalItems) \o " total items)"
      patternSection ==
        IF Len(enrichedData.workPatterns) > 0
          THEN "\n\n**Notable Patterns**:\n"
               \o Lines(Len(enrichedData.workPatterns),
                        LAMBDA i : "  - " \o enrichedData.workPatterns[i].type \o "\n")
          ELSE ""
  IN IF metrics.totalItems = 0
       THEN userName \o " doesn't appear to have any recent activity on JIRA or GitHub. "
            \o "This could mean they're on vacation, working on a different project, "
            \o "or the data might not be synced yet."
       ELSE "Here's what " \o userName \o " has been working on:\n\n"
            \o jiraSection \o githubSection \o linkedSection \o levelSection
            \o patternSection

\* what openai.chat.completions.create answers: a completion, or a failure
\* (network, authentication, a response without choices)
AIAnswers == {[ok |-> TRUE, content |-> "Maya has been busy."], [ok |-> FALSE, content |-> ""]}

\* a generateResponse that returns whatever the generative call left
generateResponseUnguarded(a, query, enrichedData, userName) == a.content

\* a generateResponse that reports the failure of the generative call
generateResponseReporting(a, query, enrichedData, userName) ==
  IF a.ok THEN a.content
  ELSE generateErrorResponse([type |-> "API_ERROR", message |-> "AI generation failed"],
                             userName)

\* generateResponse once the generative call is answered (useAI)
generateResponseAI(a, query, enrichedData, userName) ==
  IF a.ok THEN a.content ELSE generateTemplateResponse(query, enrichedData, userName)

(***************************************************************************)
(* What the client operations can return after a cache miss, over all the  *)
(* answers of the upstream services.                                       *)
(***************************************************************************)
GithubAnswers(oks) == oks \cup {Fail(st) : st \in FailureStatuses}

\* the answers to the detail requests of the pull requests found
DetailRuns ==
  {[i \in 1..MaxRecs |-> IF k[i] = 200 THEN Ok(<<RawPullRequest(i)>>) ELSE Fail(k[i])] :
     k \in [1..MaxRecs -> {200, 404, 500}]}

findUserByNameResults == {findUserByName(run) : run \in RunsOf(UserSearchAnswers)}

findUserResults ==
  {findUser(direct, search) : direct \in GithubAnswers(GithubUserAnswers),
                              search \in GithubAnswers(GithubUserSearchAnswers)}

getAssignedIssuesResults == {getAssignedIssues(run) : run \in RunsOf(IssueSearchAnswers)}

getRecentActivityResults == {getRecentActivity(run) : run \in RunsOf(IssueSearchAnswers)}

getRecentCommitsResults == {getRecentCommits(a) : a \in GithubAnswers(CommitSearchAnswers)}

getActivePullRequestsResults ==
  {getActivePullRequests(search, details) : search \in GithubAnswers(PullSearchAnswers),
                                            details \in DetailRuns}

(***************************************************************************)
(* The state.                                                              *)
(***************************************************************************)
VARIABLES
  ghToken,      \* config.github.apiToken is a token (not missing, not the placeholder)
  useAI,        \* config.openai.apiKey is set: ResponseGenerator.useAI
  jiraCache,    \* JiraClient.cache
  ghCache,      \* GitHubClient.cache
  lastIndex,    \* queryParser.timePatterns[k].pattern.lastIndex
  now,          \* the clock (seconds)
  pc,           \* where the handler of the query in flight is
  qn,           \* queries received so far
  h,            \* the handler's locals: query, parsed, userName, timeframe, enrichedData
  jiraUser,     \* the promise of jiraClient.findUserByName
  githubUser,   \* the promise of githubClient.findUser
  fetch,        \* the promises handed to Promise.allSettled, by position
  own,          \* what each fetch operation itself returned (history)
  calls,        \* the client operations the query has invoked (history)
  net,          \* those of them that went to the network (history)
  sent,         \* responses sent for the query in flight
  resp,         \* the response sent
  escaped,      \* an exception left the handler
  hist          \* SpecCache: the client calls made so far

vars == <<ghToken, useAI, jiraCache, ghCache, lastIndex, now, pc, qn, h, jiraUser,
          githubUser, fetch, own, calls, net, sent, resp, escaped, hist>>

FetchOrder == <<"issues", "activity", "commits", "prs", "repos">>
FetchNames == SeqToSet(FetchOrder)
JiraFetches == {"issues", "activity"}
GithubFetches == {"commits", "prs", "repos"}

NoPromise == [st |-> "none", v |-> Null]
Idle == [st |-> "idle", v |-> << >>]
Pending == [st |-> "pending", v |-> << >>]
Settled(r) == [st |-> r.st, v |-> r.v]
Resolved(v) == [st |-> "fulfilled", v |-> v]

NoFrame == [valid |-> FALSE, query |-> "", parsed |-> Null, name |-> Nil,
            timeframe |-> 0, enriched |-> Null]
NoResponse == [status |-> 0, body |-> Null]

(***************************************************************************)
(* The requests.                                                           *)
(***************************************************************************)
QueryTexts ==
  {"What is Maya working on these days?",
   "What has Maya committed this week",
   "show me the open issues"}

\* a request: req.body is there or not, its query is a string or not
Requests ==
  {[hasBody |-> FALSE, isString |-> FALSE, query |-> ""],
   [hasBody |-> TRUE, isString |-> FALSE, query |-> ""],
   [hasBody |-> TRUE, isString |-> TRUE, query |-> ""]}
  \cup {[hasBody |-> TRUE, isString |-> TRUE, query |-> q] : q \in QueryTexts}

InvalidQueryMessage == "Invalid query. Please provide a question as a string."
NoNameMessage ==
  "Could not extract a name from your query. Please try: \"What is [name] working on?\""

(***************************************************************************)
(* POST /api/query (the server).                                            *)
(***************************************************************************)
Init ==
  /\ ghToken \in BOOLEAN
  /\ useAI \in BOOLEAN
  /\ jiraCache = EmptyCache
  /\ ghCache = EmptyCache
  /\ lastIndex = [k \in 1..NumPatterns |-> 0]
  /\ now = 0
  /\ pc = "idle"
  /\ qn = 0
  /\ h = NoFrame
  /\ jiraUser = NoPromise
  /\ githubUser = NoPromise
  /\ fetch = [f \in FetchNames |-> Idle]
  /\ own = [f \in FetchNames |-> Idle]
  /\ calls = {}
  /\ net = {}
  /\ sent = 0
  /\ resp = NoResponse
  /\ escaped = FALSE
  /\ hist = << >>

\* a handler without its try/catch: the exception leaves it
Rethrow(error) == [escaped |-> TRUE, resp |-> NoResponse]

\* the catch block of the handler
HandlerCatch(error) ==
  LET errorResponse == handleError(error)
  IN [escaped |-> FALSE,
      resp |-> [status |-> 500,
                body |-> [error |-> errorResponse,
                          message |-> generateErrorResponse(errorResponse, "user")]]]

\* a handler without the check of the name
NameNeverMissing(parsed) == FALSE

\* if (!parsed.name)
NameMissing(parsed) == parsed.name = Nil

\* a join that lets the handler go on when the first resolution settles
EitherSettled(ju, gu) == ju.st = "fulfilled" \/ gu.st = "fulfilled"

\* await Promise.all([findUserByName, findUser]): both have settled
IdentityJoined(ju, gu) == ju.st = "fulfilled" /\ gu.st = "fulfilled"

\* a handler without the check of the users
NeverAbsent(ju, gu) == FALSE

\* if (!jiraUser || !githubUser)
EitherAbsent(ju, gu) == ju = Null \/ gu = Null

\* if (!jiraUser && !githubUser)
BothAbsent(ju, gu) == ju = Null /\ gu = Null

\* results pushed in the order of completion: the outcome of a fetch of the
\* tracker takes the first position of the tracker that is still pending
SettleInCompletionOrder(results, f, outcome) ==
  IF f \in JiraFetches
    THEN LET free == {i \in 1..Len(FetchOrder) :
                        FetchOrder[i] \in JiraFetches /\ results[FetchOrder[i]].st = "pending"}
             first == CHOOSE i \in free : \A j \in free : i <= j
         IN IF free = {} THEN results ELSE [results EXCEPT ![FetchOrder[first]] = outcome]
    ELSE [results EXCEPT ![f] = outcome]

\* Promise.allSettled: the outcome of the fetch named f takes f's position
SettleAt(results, f, outcome) == [results EXCEPT ![f] = outcome]

\* Promise.all: settled when all are fulfilled or one is rejected, and then
\* rejected
PromiseAll(results) ==
  [settled |-> (\A f \in FetchNames : results[f].st = "fulfilled")
               \/ (\E f \in FetchNames : results[f].st = "rejected"),
   rejected |-> \E f \in FetchNames : results[f].st = "rejected"]

\* Promise.allSettled: settled when no promise is pending, never rejected
allSettled(results) ==
  [settled |-> \A f \in FetchNames : results[f].st \in {"fulfilled", "rejected"},
   rejected |-> FALSE]

\* what a rejected fetch throws
RequestError == [class |-> "Error", message |-> "Request failed"]

\* results that are dropped altogether when one fetch is rejected
AllOrNothing(results) ==
  [f \in FetchNames |->
     IF \A g \in FetchNames : results[g].st = "fulfilled" THEN results[f].v ELSE << >>]

\* results.map(result => result.status === 'fulfilled' ? result.value : [])
ExtractResults(results) ==
  [f \in FetchNames |-> IF results[f].st = "fulfilled" THEN results[f].v ELSE << >>]

\* a handler without the check of the total
ActivityAssumed(enrichedData) == FALSE

\* if (enrichedData.metrics.totalItems === 0)
NoActivityFound(enrichedData) == enrichedData.metrics.totalItems = 0

\* the handler up to its first await
Receive(r, bodyUndefined) ==
  /\ pc = "idle"
  /\ qn < MaxQueries
  /\ qn' = qn + 1
  /\ fetch' = [f \in FetchNames |-> Idle]
  /\ own' = [f \in FetchNames |-> Idle]
  /\ UNCHANGED <<ghToken, useAI, now, hist>>
  /\ IF ~r.hasBody /\ bodyUndefined
       THEN \* req.body is undefined: the destructuring throws
            LET c == HandlerCatch(BodyTypeError)
            IN /\ escaped' = c.escaped
               /\ resp' = c.resp
               /\ sent' = IF c.escaped THEN 0 ELSE 1
               /\ pc' = "done"
               /\ h' = NoFrame
               /\ calls' = {} /\ net' = {}
               /\ jiraUser' = NoPromise /\ githubUser' = NoPromise
               /\ UNCHANGED <<jiraCache, ghCache, lastIndex>>
     ELSE IF ~r.hasBody \/ ~r.isString \/ r.query = ""
       THEN /\ resp' = [status |-> 400, body |-> [error |-> InvalidQueryMessage]]
            /\ sent' = 1
            /\ pc' = "done"
            /\ h' = NoFrame
            /\ calls' = {} /\ net' = {}
            /\ jiraUser' = NoPromise /\ githubUser' = NoPromise
            /\ UNCHANGED <<jiraCache, ghCache, lastIndex, escaped>>
     ELSE LET p == parse(r.query, lastIndex)
              parsed == p.parsed
          IN /\ lastIndex' = p.lastIndex
             /\ UNCHANGED escaped
             /\ IF NameMissing(parsed)
                  THEN /\ resp' = [status |-> 400, body |-> [error |-> NoNameMessage]]
                       /\ sent' = 1
                       /\ pc' = "done"
                       /\ h' = [NoFrame EXCEPT !.valid = TRUE, !.query = r.query,
                                                !.parsed = parsed]
                       /\ calls' = {} /\ net' = {}
                       /\ jiraUser' = NoPromise /\ githubUser' = NoPromise
                       /\ UNCHANGED <<jiraCache, ghCache>>
                  ELSE LET userName == parsed.name
                           timeframe == IF parsed.timeframe = NoTimeframe
                                          THEN DefaultTimeframe ELSE parsed.timeframe
                           jHit == CacheLive(jiraCache, JiraUserKey(userName), now)
                           gHit == CacheLive(ghCache, GithubUserKey(userName), now)
                       IN /\ h' = [valid |-> TRUE, query |-> r.query, parsed |-> parsed,
                                   name |-> userName, timeframe |-> timeframe,
                                   enriched |-> Null]
                          /\ jiraUser' = IF jHit
                                           THEN Resolved(CacheGet(jiraCache, JiraUserKey(userName), now))
                                           ELSE [st |-> "pending", v |-> Null]
                          /\ githubUser' = IF ~ghToken THEN Resolved(Null)
                                           ELSE IF gHit
                                             THEN Resolved(CacheGet(ghCache, GithubUserKey(userName), now))
                                             ELSE [st |-> "pending", v |-> Null]
                          /\ calls' = {"findUserByName", "findUser"}
                          /\ net' = (IF jHit THEN {} ELSE {"findUserByName"})
                                    \cup (IF ~ghToken \/ gHit THEN {} ELSE {"findUser"})
                          /\ sent' = 0
                          /\ resp' = NoResponse
                          /\ pc' = "resolving"
                          /\ UNCHANGED <<jiraCache, ghCache>>

\* the tracker answers the user search (with its retries)
JiraUserAnswered(r) ==
  /\ pc = "resolving"
  /\ jiraUser.st = "pending"
  /\ jiraUser' = Settled(r)
  /\ jiraCache' = IF r.store
                    THEN CacheSet(jiraCache, JiraUserKey(h.name), r.v, now, DefaultTTL)
                    ELSE jiraCache
  /\ UNCHANGED <<ghToken, useAI, ghCache, lastIndex, now, pc, qn, h, githubUser, fetch,
                 own, calls, net, sent, resp, escaped, hist>>

\* the code host answers the user lookup (and the search after it)
GithubUserAnswered(r) ==
  /\ pc = "resolving"
  /\ githubUser.st = "pending"
  /\ githubUser' = Settled(r)
  /\ ghCache' = IF r.store
                  THEN CacheSet(ghCache, GithubUserKey(h.name), r.v, now, DefaultTTL)
                  ELSE ghCache
  /\ UNCHANGED <<ghToken, useAI, jiraCache, lastIndex, now, pc, qn, h, jiraUser, fetch,
                 own, calls, net, sent, resp, escaped, hist>>

\* the handler after `await Promise.all`: UserNotFound, or the five fetches
\* are called, each running up to its first await
AfterIdentity ==
  /\ pc = "resolving"
  /\ IdentityJoined(jiraUser, githubUser)
  /\ UNCHANGED <<ghToken, useAI, jiraCache, ghCache, lastIndex, now, qn, jiraUser,
                 githubUser, escaped, hist, h>>
  /\ IF BothAbsent(jiraUser.v, githubUser.v)
       THEN LET errorResponse == handleError(UserNotFoundError(h.name))
            IN /\ resp' = [status |-> 200,
                           body |-> [query |-> h.query,
                                     parsed |-> h.parsed,
                                     response |-> generateErrorResponse(errorResponse, h.name),
                                     error |-> errorResponse]]
               /\ sent' = sent + 1
               /\ pc' = "done"
               /\ UNCHANGED <<fetch, own, calls, net>>
       ELSE LET ju == jiraUser.v
                gu == githubUser.v
                iKey == JiraIssuesKey(ju.accountId)
                cKey == GithubCommitsKey(gu.login, h.timeframe)
                pKey == GithubPullsKey(gu.login)
                iHit == ju # Null /\ CacheLive(jiraCache, iKey, now)
                cHit == gu # Null /\ CacheLive(ghCache, cKey, now)
                pHit == gu # Null /\ CacheLive(ghCache, pKey, now)
                started ==
                  [issues |-> IF ju = Null THEN Resolved(<< >>)
                              ELSE IF iHit THEN Resolved(CacheGet(jiraCache, iKey, now))
                              ELSE Pending,
                   activity |-> IF ju = Null THEN Resolved(<< >>) ELSE Pending,
                   commits |-> IF gu = Null THEN Resolved(<< >>)
                               ELSE IF cHit THEN Resolved(CacheGet(ghCache, cKey, now))
                               ELSE Pending,
                   prs |-> IF gu = Null THEN Resolved(<< >>)
                           ELSE IF pHit THEN Resolved(CacheGet(ghCache, pKey, now))
                           ELSE Pending,
                   repos |-> IF gu = Null THEN Resolved(<< >>)
                             ELSE IF cHit
                               THEN Resolved(getRecentRepositories(CacheGet(ghCache, cKey, now)))
                             ELSE Pending]
            IN /\ fetch' = started
               /\ own' = started
               /\ calls' = calls \cup (IF ju = Null THEN {} ELSE JiraFetches)
                                 \cup (IF gu = Null THEN {} ELSE GithubFetches)
               /\ net' = net \cup {f \in FetchNames : started[f].st = "pending"}
               /\ pc' = "fetching"
               /\ UNCHANGED <<sent, resp>>

\* what a fetch leaves behind: its outcome at its position, and in `own`
FetchDone(f, r) ==
  /\ fetch' = SettleAt(fetch, f, Settled(r))
  /\ own' = [own EXCEPT ![f] = Settled(r)]
  /\ UNCHANGED <<ghToken, useAI, lastIndex, now, pc, qn, h, jiraUser, githubUser, calls,
                 net, sent, resp, escaped, hist>>

\* the tracker answers the search of getAssignedIssues (with its retries)
IssuesAnswered(r) ==
  /\ pc = "fetching"
  /\ own.issues.st = "pending"
  /\ FetchDone("issues", r)
  /\ jiraCache' = IF r.store
                    THEN CacheSet(jiraCache, JiraIssuesKey(jiraUser.v.accountId), r.v,
                                  now, DefaultTTL)
                    ELSE jiraCache
  /\ UNCHANGED ghCache

\* the tracker answers the search of getRecentActivity (with its retries)
ActivityAnswered(r) ==
  /\ pc = "fetching"
  /\ own.activity.st = "pending"
  /\ FetchDone("activity", r)
  /\ UNCHANGED <<jiraCache, ghCache>>

\* the code host answers the commit search of getRecentCommits
CommitsAnswered(r) ==
  /\ pc = "fetching"
  /\ own.commits.st = "pending"
  /\ FetchDone("commits", r)
  /\ ghCache' = IF r.store
                  THEN CacheSet(ghCache, GithubCommitsKey(githubUser.v.login, h.timeframe),
                                r.v, now, DefaultTTL)
                  ELSE ghCache
  /\ UNCHANGED jiraCache

\* the code host answers the search of getActivePullRequests and the detail
\* requests
PullsAnswered(r) ==
  /\ pc = "fetching"
  /\ own.prs.st = "pending"
  /\ FetchDone("prs", r)
  /\ ghCache' = IF r.store
                  THEN CacheSet(ghCache, GithubPullsKey(githubUser.v.login), r.v, now,
                                DefaultTTL)
                  ELSE ghCache
  /\ UNCHANGED jiraCache

\* the code host answers the commit search that getRecentRepositories makes
\* through getRecentCommits
ReposAnswered(c) ==
  /\ pc = "fetching"
  /\ own.repos.st = "pending"
  /\ LET r == Direct(getRecentRepositories(c.v), FALSE, c.attempts)
     IN /\ FetchDone("repos", r)
        /\ ghCache' = IF c.store
                        THEN CacheSet(ghCache, GithubCommitsKey(githubUser.v.login, h.timeframe),
                                      c.v, now, DefaultTTL)
                        ELSE ghCache
  /\ UNCHANGED jiraCache

\* users: { jira: ..., github: ... }
UsersOf(ju, gu) ==
  [jira |-> IF ju = Null THEN Null
            ELSE [name |-> ju.displayName, accountId |-> ju.accountId],
   github |-> IF gu = Null THEN Null
              ELSE [name |-> IF gu.name = Nil THEN gu.login ELSE gu.name, login |-> gu.login]]

\* res.json({query, parsed, response, data, users})
Answer(response, enrichedData) ==
  [status |-> 200,
   body |-> [query |-> h.query, parsed |-> h.parsed, response |-> response,
             data |-> enrichedData, users |-> UsersOf(jiraUser.v, githubUser.v)]]

\* the handler after `await Promise.allSettled`
AfterFetches ==
  /\ pc = "fetching"
  /\ allSettled(fetch).settled
  /\ IF allSettled(fetch).rejected
       THEN LET c == HandlerCatch(RequestError)
            IN /\ escaped' = c.escaped
               /\ resp' = c.resp
               /\ sent' = IF c.escaped THEN sent ELSE sent + 1
               /\ pc' = "done"
               /\ UNCHANGED h
       ELSE LET res == ExtractResults(fetch)
                jiraData == [user |-> jiraUser.v, issues |-> res.issues,
                             recentActivity |-> res.activity]
                githubData == [user |-> githubUser.v, commits |-> res.commits,
                               pullRequests |-> res.prs, repositories |-> res.repos]
                enrichedData == enrich(jiraData, githubData, h.timeframe)
            IN /\ h' = [h EXCEPT !.enriched = enrichedData]
               /\ UNCHANGED escaped
               /\ IF NoActivityFound(enrichedData)
                    THEN LET errorResponse == handleError(NoActivityError(h.name))
                         IN /\ resp' = [status |-> 200,
                                        body |-> [query |-> h.query, parsed |-> h.parsed,
                                                  response |->
                                                    generateErrorResponse(errorResponse, h.name),
                                                  data |-> enrichedData,
                                                  error |-> errorResponse]]
                            /\ sent' = sent + 1
                            /\ pc' = "done"
                  ELSE IF useAI
                    THEN /\ pc' = "generating"
                         /\ UNCHANGED <<resp, sent>>
                  ELSE /\ resp' = Answer(generateTemplateResponse(h.query, enrichedData, h.name),
                                         enrichedData)
                       /\ sent' = sent + 1
                       /\ pc' = "done"
  /\ calls' = IF pc' = "generating" THEN calls \cup {"generateAIResponse"} ELSE calls
  /\ UNCHANGED <<ghToken, useAI, jiraCache, ghCache, lastIndex, now, qn, jiraUser,
                 githubUser, fetch, own, net, hist>>

\* a generateResponse without its try/catch: the failure of the generative
\* call leaves it
RaisesOnFailure(a) == ~a.ok

\* generateResponse raises: never, its catch block returns the template's
\* text after every failure of the generative call
generateResponseRaises(a) == FALSE

\* what a failed generative call throws
GenerativeError == [class |-> "Error", message |-> "Connection error."]

\* the generative service answers (or fails): generateResponse returns
AIAnswered(a) ==
  /\ pc = "generating"
  /\ IF generateResponseRaises(a)
       THEN LET c == HandlerCatch(GenerativeError)
            IN /\ escaped' = c.escaped
               /\ resp' = c.resp
               /\ sent' = IF c.escaped THEN sent ELSE sent + 1
       ELSE /\ resp' = Answer(generateResponseAI(a, h.query, h.enriched, h.name), h.enriched)
            /\ sent' = sent + 1
            /\ UNCHANGED escaped
  /\ pc' = "done"
  /\ UNCHANGED <<ghToken, useAI, jiraCache, ghCache, lastIndex, now, qn, h, jiraUser,
                 githubUser, fetch, own, calls, net, hist>>

\* the handler has returned; the server waits for the next request
Return ==
  /\ pc = "done"
  /\ pc' = "idle"
  /\ h' = NoFrame
  /\ jiraUser' = NoPromise
  /\ githubUser' = NoPromise
  /\ fetch' = [f \in FetchNames |-> Idle]
  /\ own' = [f \in FetchNames |-> Idle]
  /\ calls' = {}
  /\ net' = {}
  /\ sent' = 0
  /\ resp' = NoResponse
  /\ escaped' = FALSE
  /\ UNCHANGED <<ghToken, useAI, jiraCache, ghCache, lastIndex, now, qn, hist>>

Next ==
  \/ \E r \in Requests, bodyUndefined \in BOOLEAN : Receive(r, bodyUndefined)
  \/ \E r \in findUserByNameResults : JiraUserAnswered(r)
  \/ \E r \in findUserResults : GithubUserAnswered(r)
  \/ AfterIdentity
  \/ \E r \in getAssignedIssuesResults : IssuesAnswered(r)
  \/ \E r \in getRecentActivityResults : ActivityAnswered(r)
  \/ \E r \in getRecentCommitsResults : CommitsAnswered(r)
  \/ \E r \in getActivePullRequestsResults : PullsAnswered(r)
  \/ \E c \in getRecentCommitsResults : ReposAnswered(c)
  \/ AfterFetches
  \/ \E a \in AIAnswers : AIAnswered(a)
  \/ Return

Spec == Init /\ [][Next]_vars

(***************************************************************************)
(* Properties of the handler, checked under Spec.                          *)
(***************************************************************************)
BothSettled == jiraUser.st = "fulfilled" /\ githubUser.st = "fulfilled"

\* the kind of error the response carries: none, the 400 of a rejected
\* request, or the type of its error object
ErrorKind ==
  IF "error" \notin DOMAIN resp.body THEN "none"
  ELSE IF resp.status = 400 THEN "rejected"
  ELSE resp.body.error.type

HasData == "data" \in DOMAIN resp.body

\* what a fetch contributed by itself: its records, nothing when it failed
Contribution(f) == IF own[f].st = "fulfilled" THEN own[f].v ELSE << >>

\* the records the activity total counts, as the fetches returned them
CountedRecords ==
  Len(Contribution("issues")) + Len(Contribution("commits")) + Len(Contribution("prs"))

\* the list of the enriched model that the fetch f feeds
ModelList(data, f) ==
  IF f = "issues" THEN data.jira.activeIssues
  ELSE IF f = "activity" THEN data.jira.recentActivity
  ELSE IF f = "commits" THEN data.github.commits
  ELSE IF f = "prs" THEN data.github.pullRequests
  ELSE data.github.repositories

UserNotFoundSentence(name) ==
  "I couldn't find \"" \o name
  \o "\" in JIRA or GitHub. Please check the spelling or try a different name."

NoActivitySentence(name) ==
  name \o " doesn't have any recent activity to show. "
  \o "They might be on vacation or working on something else."

\* C1: no activity fetch is called, let alone pending or settled, unless both
\* identity resolutions of the query have completed, in whichever order the
\* two complete.
C1_FetchAfterIdentity ==
  \A f \in FetchNames :
    (f \in calls \/ fetch[f].st # "idle") => BothSettled

\* both resolutions went to the network and completed, and fetches are pending
C1_Witness ==
  /\ pc = "fetching"
  /\ {"findUserByName", "findUser"} \subseteq net
  /\ BothSettled
  /\ \E f \in FetchNames : fetch[f].st = "pending"

\* C2: when both resolutions complete with no identity, no activity fetch is
\* ever called for the query, and the query ends with the error kind
\* USER_NOT_FOUND, no data, and the fixed sentence naming the subject.
C2_UserNotFound ==
  (BothSettled /\ jiraUser.v = Null /\ githubUser.v = Null) =>
    /\ calls \cap FetchNames = {}
    /\ \A f \in FetchNames : fetch[f].st = "idle"
    /\ pc \in {"resolving", "done"}
    /\ pc = "done" =>
         /\ ErrorKind = "USER_NOT_FOUND"
         /\ ~HasData
         /\ resp.body.response = UserNotFoundSentence(h.parsed.name)

C2_Witness ==
  /\ pc = "done"
  /\ BothSettled /\ jiraUser.v = Null /\ githubUser.v = Null
  /\ "findUserByName" \in net
  /\ ErrorKind = "USER_NOT_FOUND"

\* C3: once the fetches have settled, each list of the enriched model is what
\* its own fetch returned, and empty when that fetch failed, whatever the
\* other four did; a failed fetch neither keeps the others from settling nor
\* keeps the query from being answered with the model.
C3_PartialFailure ==
  (pc = "done" /\ calls \cap FetchNames # {}) =>
    /\ \A f \in FetchNames : own[f].st \in {"fulfilled", "rejected"}
    /\ HasData
    /\ \A f \in FetchNames :
         ModelList(resp.body.data, f) = (IF own[f].st = "rejected" THEN << >> ELSE own[f].v)

\* the issue fetch failed, commits were found, the query is answered
C3_Witness ==
  /\ pc = "done"
  /\ own.issues.st = "rejected"
  /\ own.commits.st = "fulfilled" /\ own.commits.v # << >>
  /\ HasData /\ resp.body.data.github.commits = own.commits.v

\* C4 as stated: the code host has no credential, the tracker resolves the
\* subject and returns records (issues or recent activity): the query
\* completes with these records and no error kind.
C4_Original ==
  (pc = "done" /\ ~ghToken /\ jiraUser.st = "fulfilled" /\ jiraUser.v # Null
   /\ (Contribution("issues") # << >> \/ Contribution("activity") # << >>)) =>
    /\ HasData
    /\ resp.body.data.jira.activeIssues = Contribution("issues")
    /\ resp.body.data.jira.recentActivity = Contribution("activity")
    /\ ErrorKind = "none"

\* C4: a source that resolves the subject has its fetches called and its
\* records placed in the enriched model whatever the other source does (in
\* particular when the other has no credential or fails every request), and
\* when it returns at least one record that the total counts (an issue, a
\* commit or a pull request) the query completes with no error kind.
C4_OneSourceDown ==
  (pc = "done" /\ BothSettled) =>
    /\ jiraUser.v # Null =>
         /\ JiraFetches \subseteq calls
         /\ HasData
         /\ \A f \in JiraFetches : ModelList(resp.body.data, f) = Contribution(f)
         /\ Len(Contribution("issues")) > 0 => ErrorKind = "none"
    /\ githubUser.v # Null =>
         /\ GithubFetches \subseteq calls
         /\ HasData
         /\ \A f \in GithubFetches : ModelList(resp.body.data, f) = Contribution(f)
         /\ Len(Contribution("commits")) + Len(Contribution("prs")) > 0 => ErrorKind = "none"

\* no credential for the code host, the tracker returns an issue
C4_Witness ==
  /\ pc = "done"
  /\ ~ghToken /\ githubUser.v = Null
  /\ jiraUser.v # Null
  /\ Len(Contribution("issues")) > 0
  /\ ErrorKind = "none"
  /\ resp.body.data.jira.activeIssues = own.issues.v

\* C5: the enriched model of the response is the enrichment of what each of
\* the five fetches returned, taken by the name of the fetch: it does not
\* depend on the order in which the fetches completed.
C5_OrderIndependent ==
  (pc = "done" /\ HasData) =>
    resp.body.data =
      enrich([user |-> jiraUser.v, issues |-> Contribution("issues"),
              recentActivity |-> Contribution("activity")],
             [user |-> githubUser.v, commits |-> Contribution("commits"),
              pullRequests |-> Contribution("prs"),
              repositories |-> Contribution("repos")],
             h.timeframe)

\* all five fetches went to the network, and the two of the tracker returned
\* different lists
C5_Witness ==
  /\ pc = "done"
  /\ HasData
  /\ FetchNames \subseteq net
  /\ own.issues.v # own.activity.v
  /\ resp.body.data.jira.recentActivity # << >>

\* C6: a query that yields no subject name is rejected with the corrective
\* prompt, and no client operation is called and no request sent for it.
C6_NoNameRejected ==
  (h.valid /\ h.parsed.name = Nil) =>
    /\ pc = "done"
    /\ resp.status = 400
    /\ resp.body = [error |-> NoNameMessage]
    /\ calls = {} /\ net = {}
    /\ jiraUser = NoPromise /\ githubUser = NoPromise

C6_Witness ==
  /\ pc = "done"
  /\ h.valid /\ h.parsed.name = Nil
  /\ h.query = "show me the open issues"
  /\ resp.status = 400

\* C7: when a source resolved the subject and the fetches returned no issue,
\* commit or pull request, the query ends with the error kind NO_ACTIVITY,
\* its sentence, and the enriched model with total 0.
C7_NoActivity ==
  (pc = "done" /\ BothSettled /\ (jiraUser.v # Null \/ githubUser.v # Null)
   /\ CountedRecords = 0) =>
    /\ ErrorKind = "NO_ACTIVITY"
    /\ resp.body.response = NoActivitySentence(h.parsed.name)
    /\ HasData
    /\ resp.body.data.metrics.totalItems = 0
    /\ resp.body.data = h.enriched

C7_Witness ==
  /\ pc = "done"
  /\ jiraUser.v # Null
  /\ "issues" \in net
  /\ CountedRecords = 0
  /\ ErrorKind = "NO_ACTIVITY"

\* the query failed: bad request, no name, nobody found, nothing found
Failed ==
  \/ ~h.valid
  \/ h.parsed.name = Nil
  \/ (jiraUser.v = Null /\ githubUser.v = Null)
  \/ CountedRecords = 0

\* C8: no exception leaves the handler; a query in flight has no response
\* yet, a completed one has exactly one; and the response carries an error
\* field exactly when the query failed.
C8_OneResponse ==
  /\ ~escaped
  /\ sent = (IF pc = "done" THEN 1 ELSE 0)
  /\ pc = "done" =>
       /\ resp.status \in {200, 400, 500}
       /\ Failed <=> "error" \in DOMAIN resp.body
       /\ resp.status = 200 => "response" \in DOMAIN resp.body

\* the exception of a request without a body was caught and reported
C8_Witness ==
  /\ pc = "done"
  /\ sent = 1
  /\ resp.status = 500
  /\ ErrorKind = "UNKNOWN_ERROR"

\* C9 as stated: a failed fetch of the assigned issues is reported as the
\* error kind API_ERROR.
C9_Original ==
  (pc = "done" /\ own.issues.st = "rejected") => ErrorKind = "API_ERROR"

\* C9: a failed fetch of the assigned issues is absorbed: the response has
\* status 200 and the enriched model with an empty issue list, and its error
\* kind is NO_ACTIVITY when no commit or pull request was found either, none
\* otherwise.
C9_FaultAbsorbed ==
  (pc = "done" /\ own.issues.st = "rejected") =>
    /\ resp.status = 200
    /\ HasData
    /\ resp.body.data.jira.activeIssues = << >>
    /\ ErrorKind = (IF Len(Contribution("commits")) + Len(Contribution("prs")) = 0
                      THEN "NO_ACTIVITY" ELSE "none")

C9_Witness ==
  /\ pc = "done"
  /\ own.issues.st = "rejected"
  /\ own.activity.v # << >>
  /\ ErrorKind = "NO_ACTIVITY"

\* C21: a query that ends with an error kind (the 400 of a rejected request,
\* USER_NOT_FOUND, NO_ACTIVITY, or the error of an unexpected fault) has made
\* no generative call; while a generative call is in flight nothing has been
\* sent.
C21_NoGenerativeOnError ==
  /\ (pc = "done" /\ ErrorKind # "none") => "generateAIResponse" \notin calls
  /\ pc = "generating" =>
       ("generateAIResponse" \in calls /\ sent = 0 /\ resp = NoResponse)

\* with a generative backend configured, a query whose fetches all went to
\* the network ends with NO_ACTIVITY
C21_Witness ==
  /\ pc = "done" /\ useAI
  /\ ErrorKind = "NO_ACTIVITY"
  /\ JiraFetches \subseteq net
  /\ "generateAIResponse" \notin calls

(***************************************************************************)
(* The cached fetch operations of the two clients, called by any caller,   *)
(* any number of them in flight, while the clock advances: SpecCache.      *)
(* hist holds one entry for each call: the operation, the time of the call,*)
(* the calls that had returned when it was made, the requests it sent,     *)
(* whether and when it stored its result, and whether it has returned.     *)
(***************************************************************************)
CachedOps == {"getAssignedIssues", "getRecentCommits", "getActivePullRequests"}

\* the cache key of the operation, called for Maya's identities and the
\* default window
KeyOf(op) ==
  IF op = "getAssignedIssues" THEN JiraIssuesKey(JiraUserMaya.accountId)
  ELSE IF op = "getActivePullRequests" THEN GithubPullsKey(GithubUserMaya.login)
  ELSE GithubCommitsKey(GithubUserMaya.login, DefaultTimeframe)

\* the requests of one makeRequest: the request, and with a token the
\* request of checkRateLimit before it
RequestsOf(attempts) == IF ghToken THEN 2 * attempts ELSE attempts

\* the step of the clock: a second more than half a time-to-live
TickStep == DefaultTTL \div 2 + 1

HandlerVars == <<useAI, lastIndex, pc, qn, h, jiraUser, githubUser, fetch, own, calls,
                 net, sent, resp, escaped>>

\* an operation is called (a behaviour repeats the operation it called
\* first): it reads its cache and returns what it finds
Call(op) ==
  /\ Len(hist) < MaxCalls
  /\ hist # << >> => hist[1].op = op
  /\ LET cache == IF op = "getAssignedIssues" THEN jiraCache ELSE ghCache
     IN hist' = Append(hist, [op |-> op, at |-> now,
                              seen |-> {i \in 1..Len(hist) : hist[i].done},
                              reqs |-> 0, stored |-> FALSE, storedAt |-> 0,
                              done |-> CacheLive(cache, KeyOf(op), now)])
  /\ UNCHANGED <<ghToken, jiraCache, ghCache, now, HandlerVars>>

\* the call i returns after `reqs` requests, its result stored or not
Returned(i, reqs, stored) ==
  hist' = [hist EXCEPT ![i] = [@ EXCEPT !.reqs = reqs, !.stored = stored,
                                        !.storedAt = IF stored THEN now ELSE 0,
                                        !.done = TRUE]]

InFlight(op) == {i \in 1..Len(hist) : hist[i].op = op /\ ~hist[i].done}

IssuesReturn(i, r) ==
  /\ i \in InFlight("getAssignedIssues")
  /\ Returned(i, r.attempts, r.store)
  /\ jiraCache' = IF r.store
                    THEN CacheSet(jiraCache, KeyOf(hist[i].op), r.v, now, DefaultTTL)
                    ELSE jiraCache
  /\ UNCHANGED <<ghToken, ghCache, now, HandlerVars>>

CommitsReturn(i, r) ==
  /\ i \in InFlight("getRecentCommits")
  /\ Returned(i, RequestsOf(r.attempts), r.store)
  /\ ghCache' = IF r.store
                  THEN CacheSet(ghCache, KeyOf(hist[i].op), r.v, now, DefaultTTL)
                  ELSE ghCache
  /\ UNCHANGED <<ghToken, jiraCache, now, HandlerVars>>

PullsReturn(i, r) ==
  /\ i \in InFlight("getActivePullRequests")
  /\ Returned(i, RequestsOf(r.attempts), r.store)
  /\ ghCache' = IF r.store
                  THEN CacheSet(ghCache, KeyOf(hist[i].op), r.v, now, DefaultTTL)
                  ELSE ghCache
  /\ UNCHANGED <<ghToken, jiraCache, now, HandlerVars>>

Tick ==
  /\ now + TickStep <= MaxTime
  /\ now' = now + TickStep
  /\ UNCHANGED <<ghToken, jiraCache, ghCache, hist, HandlerVars>>

NextCache ==
  \/ \E op \in CachedOps : Call(op)
  \/ \E i \in 1..MaxCalls, r \in getAssignedIssuesResults : IssuesReturn(i, r)
  \/ \E i \in 1..MaxCalls, r \in getRecentCommitsResults : CommitsReturn(i, r)
  \/ \E i \in 1..MaxCalls, r \in getActivePullRequestsResults : PullsReturn(i, r)
  \/ Tick

\* the generative service plays no part
InitCache == Init /\ ~useAI

SpecCache == InitCache /\ [][NextCache]_vars

\* the calls that have returned
Returns == {i \in 1..Len(hist) : hist[i].done}

\* the call j is the same operation as the call i, made after i returned
Repeats(i, j) == hist[j].op = hist[i].op /\ i \in hist[j].seen

\* the call j was made when every result stored before it had expired
AfterExpiry(j) ==
  \A i \in hist[j].seen :
    (hist[i].stored /\ KeyOf(hist[i].op) = KeyOf(hist[j].op))
      => hist[i].storedAt + DefaultTTL < hist[j].at

\* C10 as stated: two calls of the same cached operation, the second made
\* after the first returned and within the time-to-live of the first, send at
\* most one request together; a call made after the last stored result has
\* expired sends exactly one request.
C10_Original ==
  \A i \in Returns, j \in Returns :
    Repeats(i, j) =>
      /\ hist[j].at < hist[i].at + DefaultTTL => hist[i].reqs + hist[j].reqs <= 1
      /\ (hist[i].stored /\ AfterExpiry(j)) => hist[j].reqs = 1

\* C10: once a call has stored its result, a call of the same operation made
\* before the stored result expires sends no request; a call made after every
\* stored result has expired is not served from the cache: it sends at least
\* one request, and the issue fetch at most one for each of its attempts.
C10_CacheWindow ==
  \A i \in Returns, j \in Returns :
    Repeats(i, j) =>
      /\ (hist[i].stored /\ hist[j].at < hist[i].storedAt + DefaultTTL)
           => hist[j].reqs = 0
      /\ (hist[i].stored /\ AfterExpiry(j)) =>
           /\ hist[j].reqs >= 1
           /\ hist[j].op = "getAssignedIssues" => hist[j].reqs <= MaxRetries

\* a call stores its result after a retry, the clock advances, and the next
\* call is served from the cache before the result expires
C10_Witness ==
  /\ Len(hist) = 2
  /\ \A i \in 1..2 : hist[i].done /\ hist[i].op = "getAssignedIssues"
  /\ hist[1].stored /\ hist[1].reqs > 1
  /\ hist[2].seen = {1}
  /\ hist[1].storedAt < hist[2].at /\ hist[2].at < hist[1].storedAt + DefaultTTL
  /\ hist[2].reqs = 0

(***************************************************************************)
(* Every operation of the two clients, called by any caller with any case  *)
(* of the name, while the clock advances: SpecClient.  Each attempt of a   *)
(* call is answered by the upstream service in any way.  hist holds one    *)
(* entry for each call: besides the fields of SpecCache, the name and the  *)
(* cache key, whether the call was served from the cache, how its promise  *)
(* settled and with what value, and the answers, attempts and back-off     *)
(* delays it went through.                                                 *)
(***************************************************************************)
NameVariants == {"Maya", "maya", "MAYA"}

IdentityOps == {"findUserByName", "findUser"}
JiraOps == {"findUserByName", "getAssignedIssues", "getRecentActivity"}
GithubOps == {"findUser", "getRecentCommits", "getActivePullRequests", "getRecentRepositories"}
ClientOps == JiraOps \cup GithubOps

\* the cache key the operation reads (getRecentRepositories reads the key of
\* the getRecentCommits it calls; getRecentActivity reads none)
ClientKey(op, name) ==
  IF op = "findUserByName" THEN JiraUserKey(name)
  ELSE IF op = "findUser" THEN GithubUserKey(name)
  ELSE IF op = "getAssignedIssues" THEN KeyOf(op)
  ELSE IF op = "getActivePullRequests" THEN KeyOf(op)
  ELSE KeyOf("getRecentCommits")

\* the answers the upstream service would give to each attempt, one more
\* than the attempts retryRequest may make
AllRuns(oks) == [1..(MaxRetries + 1) -> GithubAnswers(oks)]

\* the result r of an operation with the answers it consumed
Outcome(r, run) ==
  [st |-> r.st, v |-> r.v, store |-> r.store, attempts |-> r.attempts, waits |-> r.waits,
   answers |-> SubSeq(run, 1, r.attempts)]

\* what each operation can return after a cache miss
Outcomes ==
  [op \in ClientOps |->
     CASE op = "findUserByName" ->
            {Outcome(findUserByName(run), run) : run \in AllRuns(UserSearchAnswers)}
       [] op = "getAssignedIssues" ->
            {Outcome(getAssignedIssues(run), run) : run \in AllRuns(IssueSearchAnswers)}
       [] op = "getRecentActivity" ->
            {Outcome(getRecentActivity(run), run) : run \in AllRuns(IssueSearchAnswers)}
       [] op = "findUser" ->
            {Outcome(findUser(direct, search), <<direct, search>>) :
               direct \in GithubAnswers(GithubUserAnswers),
               search \in GithubAnswers(GithubUserSearchAnswers)}
       [] op = "getActivePullRequests" ->
            {Outcome(getActivePullRequests(search, details), <<search>> \o details) :
               search \in GithubAnswers(PullSearchAnswers), details \in DetailRuns}
       [] OTHER ->
            {Outcome(getRecentCommits(a), <<a>>) : a \in GithubAnswers(CommitSearchAnswers)}]

\* an operation is called: findUser returns null at once without a token;
\* otherwise the operation reads its cache and returns what it finds.  (A
\* behaviour calls the operations that read one cache key, one call after
\* the other, and calls again when the last call stored its result or found
\* it in the cache: otherwise the cache is as it was for that call.)
Invoke(op, name) ==
  /\ Len(hist) < MaxCalls
  /\ (op \in IdentityOps) <=> (name # Nil)
  /\ hist # << >> => /\ ClientKey(hist[1].op, "") = ClientKey(op, "")
                     /\ hist[Len(hist)].done
                     /\ hist[Len(hist)].stored \/ hist[Len(hist)].hit
  /\ LET cache == IF op \in JiraOps THEN jiraCache ELSE ghCache
         key == ClientKey(op, name)
         skipped == op = "findUser" /\ ~ghToken
         hit == ~skipped /\ op # "getRecentActivity" /\ CacheLive(cache, key, now)
         cached == CacheGet(cache, key, now)
     IN hist' = Append(hist,
                  [op |-> op, name |-> name, key |-> key, at |-> now,
                   seen |-> {i \in 1..Len(hist) : hist[i].done},
                   hit |-> hit, done |-> hit \/ skipped,
                   st |-> IF hit \/ skipped THEN "fulfilled" ELSE "pending",
                   v |-> IF hit
                           THEN IF op = "getRecentRepositories"
                                  THEN getRecentRepositories(cached) ELSE cached
                         ELSE IF op \in IdentityOps THEN Null ELSE << >>,
                   answers |-> << >>, attempts |-> 0, waits |-> << >>, reqs |-> 0,
                   stored |-> FALSE, storedAt |-> 0])
  /\ UNCHANGED <<ghToken, jiraCache, ghCache, now, HandlerVars>>

\* the call i settles as `out` after `reqs` requests
SettledAs(i, out, reqs) ==
  hist' = [hist EXCEPT ![i] =
             [@ EXCEPT !.done = TRUE, !.st = out.st,
                       !.v = IF hist[i].op = "getRecentRepositories"
                               THEN getRecentRepositories(out.v) ELSE out.v,
                       !.answers = out.answers, !.attempts = out.attempts,
                       !.waits = out.waits, !.reqs = reqs, !.stored = out.store,
                       !.storedAt = IF out.store THEN now ELSE 0]]

\* the tracker has answered the attempts of the call i
JiraReturn(i, op, out) ==
  /\ i \in 1..Len(hist)
  /\ hist[i].op = op /\ ~hist[i].done
  /\ SettledAs(i, out, out.attempts)
  /\ jiraCache' = IF out.store
                    THEN CacheSet(jiraCache, hist[i].key, out.v, now, DefaultTTL)
                    ELSE jiraCache
  /\ UNCHANGED <<ghToken, ghCache, now, HandlerVars>>

\* the code host has answered the requests of the call i
GithubReturn(i, op, out) ==
  /\ i \in 1..Len(hist)
  /\ hist[i].op = op /\ ~hist[i].done
  /\ SettledAs(i, out, RequestsOf(out.attempts))
  /\ ghCache' = IF out.store
                  THEN CacheSet(ghCache, hist[i].key, out.v, now, DefaultTTL)
                  ELSE ghCache
  /\ UNCHANGED <<ghToken, jiraCache, now, HandlerVars>>

NextClient ==
  \/ \E op \in ClientOps, name \in NameVariants \cup {Nil} : Invoke(op, name)
  \/ \E i \in 1..MaxCalls, op \in JiraOps : \E out \in Outcomes[op] : JiraReturn(i, op, out)
  \/ \E i \in 1..MaxCalls, op \in GithubOps : \E out \in Outcomes[op] : GithubReturn(i, op, out)
  \/ Tick

SpecClient == InitCache /\ [][NextClient]_vars

(***************************************************************************)
(* Properties of the client operations, checked under SpecClient.          *)
(***************************************************************************)
FetchOps == ClientOps \ IdentityOps

\* the calls of the operations `ops` that have returned
ReturnsOf(ops) == {j \in 1..Len(hist) : hist[j].done /\ hist[j].op \in ops}

\* those of them that went to the network
MissesOf(ops) == {j \in ReturnsOf(ops) : hist[j].attempts > 0}

\* the statuses of the answers the call j consumed, and the last of them
StatusesOf(j) == [k \in 1..Len(hist[j].answers) |-> hist[j].answers[k].status]
LastStatus(j) == hist[j].answers[Len(hist[j].answers)].status

\* C11: a call that finds an unexpired entry under its key returns the value
\* that was stored there and sends no request, makes no attempt and waits for
\* no delay; and an identity lookup made, with any case of the name, after a
\* lookup of that name has stored its identity and before the entry expires
\* finds that entry.
C11_CacheHit ==
  \A j \in 1..Len(hist) :
    /\ hist[j].hit =>
         /\ hist[j].done /\ hist[j].st = "fulfilled"
         /\ hist[j].reqs = 0 /\ hist[j].attempts = 0
         /\ hist[j].waits = << >> /\ hist[j].answers = << >>
         /\ \E i \in hist[j].seen :
              /\ hist[i].stored /\ hist[i].key = hist[j].key
              /\ hist[i].op = hist[j].op => hist[j].v = hist[i].v
    /\ \A i \in hist[j].seen :
         (/\ hist[i].stored
          /\ hist[i].op = hist[j].op /\ hist[j].op \in IdentityOps
          /\ ToLower(hist[i].name) = ToLower(hist[j].name)
          /\ hist[j].at < hist[i].storedAt + DefaultTTL)
           => hist[j].hit

\* a lookup of "Maya" stores the identity after a retry and, later and before
\* the entry expires, a lookup of "MAYA" is served from the cache
C11_Witness ==
  /\ Len(hist) = 2
  /\ hist[1].op = "findUserByName" /\ hist[1].name = "Maya"
  /\ hist[1].stored /\ hist[1].reqs > 1
  /\ hist[2].op = "findUserByName" /\ hist[2].name = "MAYA"
  /\ hist[1].storedAt < hist[2].at
  /\ hist[2].hit /\ hist[2].v = JiraUserMaya

\* C12: a tracker call whose request is answered with the rate-limit status
\* twice and then with a well-formed success is fulfilled with the records of
\* the third answer, after three attempts and two delays of which the second
\* is not shorter than the first.
C12_RetryThenSuccess ==
  \A j \in MissesOf(JiraOps) :
    (StatusesOf(j) = <<429, 429, 200>> /\ hist[j].answers[3].body.ok) =>
      /\ hist[j].st = "fulfilled"
      /\ hist[j].attempts = 3
      /\ Len(hist[j].waits) = 2 /\ hist[j].waits[1] <= hist[j].waits[2]
      /\ IF hist[j].op = "findUserByName"
           THEN (hist[j].answers[3].body.items # << >>)
                  => hist[j].v = hist[j].answers[3].body.items[1]
           ELSE /\ Len(hist[j].v) = Len(hist[j].answers[3].body.items)
                /\ \A k \in 1..Len(hist[j].v) :
                     hist[j].v[k].key = hist[j].answers[3].body.items[k].key

\* the issues are fetched at the third attempt, after two rate-limit answers
C12_Witness ==
  \E j \in MissesOf({"getAssignedIssues"}) :
    /\ StatusesOf(j) = <<429, 429, 200>>
    /\ hist[j].st = "fulfilled" /\ hist[j].v # << >>
    /\ hist[j].waits = <<1000, 2000>>

\* the statuses of the client faults: unauthorized, not found, gone
ClientFaults == {401, 404, 410}

\* C13 as stated: when the first answer to getAssignedIssues is a client
\* fault, the call makes one attempt, waits for no delay and is rejected.
C13_Original ==
  \A j \in MissesOf({"getAssignedIssues"}) :
    hist[j].answers[1].status \in ClientFaults =>
      /\ hist[j].attempts = 1 /\ hist[j].waits = << >>
      /\ hist[j].st = "rejected"

\* C13: when the first answer to getAssignedIssues is a client fault, the call
\* makes one attempt and waits for no delay; it is rejected, except that for
\* not found (404) and gone (410) it returns an empty list, which it does not
\* store.
C13_ClientFault ==
  \A j \in MissesOf({"getAssignedIssues"}) :
    hist[j].answers[1].status \in ClientFaults =>
      /\ hist[j].attempts = 1 /\ hist[j].waits = << >>
      /\ IF hist[j].answers[1].status \in {404, 410}
           THEN hist[j].st = "fulfilled" /\ hist[j].v = << >> /\ ~hist[j].stored
           ELSE hist[j].st = "rejected"

\* getAssignedIssues is answered unauthorized and is rejected at once
C13_Witness ==
  \E j \in MissesOf({"getAssignedIssues"}) :
    /\ StatusesOf(j) = <<401>>
    /\ hist[j].st = "rejected" /\ hist[j].attempts = 1

\* C14: every tracker call that went to the network has returned after at
\* least one and at most MaxRetries attempts, with one delay between two
\* attempts, whatever the answers were.
C14_RetryBounded ==
  \A j \in MissesOf(JiraOps) :
    /\ hist[j].attempts >= 1 /\ hist[j].attempts <= MaxRetries
    /\ Len(hist[j].waits) = hist[j].attempts - 1
    /\ Len(hist[j].waits) <= MaxRetries - 1

\* every attempt is answered with a retryable failure: the call gives up at
\* the last attempt
C14_Witness ==
  \E j \in MissesOf(JiraOps) :
    /\ hist[j].attempts = MaxRetries
    /\ StatusesOf(j) = <<500, 429, 500>>
    /\ hist[j].waits = <<1000, 2000>>
    /\ hist[j].st = "rejected"

\* C15 as stated: a code-host fetch whose request is answered with a rate
\* limit or a server fault makes a further attempt.
C15_Original ==
  \A j \in MissesOf(GithubOps \ IdentityOps) :
    hist[j].answers[1].status \in RetryableStatuses => hist[j].attempts >= 2

\* C15: the code-host client does not retry.  A fetch whose search is answered
\* with a rate limit or a server fault returns the empty list after that one
\* attempt, without a delay, and stores nothing; findUser follows such an
\* answer to its direct lookup by one search, and makes no third attempt.
C15_NoRetry ==
  \A j \in MissesOf(GithubOps) :
    hist[j].answers[1].status \in RetryableStatuses =>
      /\ hist[j].waits = << >>
      /\ IF hist[j].op = "findUser"
           THEN hist[j].attempts = 2
           ELSE /\ hist[j].attempts = 1
                /\ hist[j].st = "fulfilled" /\ hist[j].v = << >> /\ ~hist[j].stored

\* the search of the commits is answered with a rate limit and
\* getRecentCommits returns the empty list
C15_Witness ==
  \E j \in MissesOf({"getRecentCommits"}) :
    /\ StatusesOf(j) = <<429>>
    /\ hist[j].v = << >> /\ hist[j].st = "fulfilled"

\* C16: every identity lookup of either client that has returned is fulfilled,
\* with an identity or with null, whatever the upstream answered and also
\* without a token.
C16_IdentityNeverRaises ==
  \A j \in ReturnsOf(IdentityOps) :
    /\ hist[j].st = "fulfilled"
    /\ hist[j].v = Null
       \/ (IF hist[j].op = "findUserByName"
             THEN "accountId" \in DOMAIN hist[j].v ELSE "login" \in DOMAIN hist[j].v)

\* the tracker answers unauthorized and the code host fails without a status
\* at both requests: each lookup returns null
C16_Witness ==
  \E j \in MissesOf(IdentityOps) :
    /\ LastStatus(j) \in {401, 0}
    /\ hist[j].op = "findUserByName" \/ hist[j].attempts = 2
    /\ hist[j].v = Null

\* C17 as stated: an identity lookup that misses the cache makes exactly one
\* network lookup.
C17_Original ==
  \A j \in ReturnsOf(IdentityOps) : ~hist[j].hit => hist[j].attempts = 1

\* C17: an identity lookup that misses the cache makes at least one network
\* lookup, unless it is findUser without a token, which makes none.
\* findUserByName makes at most MaxRetries, one more after each rate-limit or
\* server-fault answer; findUser makes the direct lookup and then one search
\* exactly when the direct lookup fails with a status other than 404 and 401.
C17_IdentityLookups ==
  \A j \in ReturnsOf(IdentityOps) :
    ~hist[j].hit =>
      IF hist[j].op = "findUserByName"
        THEN /\ hist[j].attempts >= 1 /\ hist[j].attempts <= MaxRetries
             /\ \A k \in 1..(hist[j].attempts - 1) :
                  hist[j].answers[k].status \in RetryableStatuses
             /\ (LastStatus(j) \in RetryableStatuses) => hist[j].attempts = MaxRetries
      ELSE IF ~ghToken THEN hist[j].attempts = 0 /\ hist[j].reqs = 0
      ELSE /\ hist[j].attempts \in {1, 2}
           /\ (hist[j].attempts = 2)
                <=> (hist[j].answers[1].status \notin {200, 404, 401})

\* findUserByName finds the identity at its second lookup
C17_Witness ==
  \E j \in MissesOf({"findUserByName"}) :
    /\ StatusesOf(j) = <<500, 200>>
    /\ hist[j].v = JiraUserMaya

\* C18 as stated: a fetch whose last answer is a rate limit or a server
\* fault is fulfilled with a list.
C18_Original ==
  \A j \in MissesOf(FetchOps) :
    LastStatus(j) \in RetryableStatuses => hist[j].st = "fulfilled"

\* C18: a fetch whose last answer is a rate limit or a server fault returns
\* the empty list, except getAssignedIssues, which is then rejected after
\* MaxRetries attempts.
C18_TransientFault ==
  \A j \in MissesOf(FetchOps) :
    LastStatus(j) \in RetryableStatuses =>
      IF hist[j].op = "getAssignedIssues"
        THEN hist[j].st = "rejected" /\ hist[j].attempts = MaxRetries
        ELSE hist[j].st = "fulfilled" /\ hist[j].v = << >>

\* getRecentActivity exhausts its attempts and returns the empty list
C18_Witness ==
  \E j \in MissesOf({"getRecentActivity"}) :
    /\ StatusesOf(j) = <<429, 500, 429>>
    /\ hist[j].st = "fulfilled" /\ hist[j].v = << >>

(***************************************************************************)
(* ResponseGenerator.generateResponse, called by any caller with any       *)
(* enriched model, also one without activity: SpecGenerate.  calls and net *)
(* record the strategy that was called and how the generative service      *)
(* answered; resp holds the text returned.                                 *)
(***************************************************************************)
\* generateResponse is called: with useAI it calls generateAIResponse and
\* awaits the completion, otherwise it returns the template's text
GenerateCalled(query, jiraData, githubData) ==
  /\ pc = "idle"
  /\ LET enrichedData == enrich(jiraData, githubData, DefaultTimeframe)
         userName == parse(query, lastIndex).parsed.name
     IN /\ userName # Nil
        /\ h' = [NoFrame EXCEPT !.valid = TRUE, !.query = query, !.name = userName,
                                !.timeframe = DefaultTimeframe,
                                !.enriched = enrichedData]
        /\ IF useAI
             THEN /\ pc' = "generating"
                  /\ calls' = {"generateAIResponse"}
                  /\ UNCHANGED resp
             ELSE /\ pc' = "done"
                  /\ calls' = {"generateTemplateResponse"}
                  /\ resp' = [status |-> 200,
                              body |-> [response |->
                                 generateTemplateResponse(query, enrichedData, userName)]]
  /\ UNCHANGED <<ghToken, useAI, jiraCache, ghCache, lastIndex, now, qn, jiraUser,
                 githubUser, fetch, own, net, sent, escaped, hist>>

\* the generative service answers (or fails): generateResponse returns
GenerateAnswered(a) ==
  /\ pc = "generating"
  /\ pc' = "done"
  /\ net' = {IF a.ok THEN "completion" ELSE "failure"}
  /\ calls' = IF a.ok THEN calls ELSE calls \cup {"generateTemplateResponse"}
  /\ resp' = [status |-> 200,
              body |-> [response |-> generateResponseAI(a, h.query, h.enriched, h.name)]]
  /\ UNCHANGED <<ghToken, useAI, jiraCache, ghCache, lastIndex, now, qn, h, jiraUser,
                 githubUser, fetch, own, sent, escaped, hist>>

NextGenerate ==
  \/ \E query \in QueryTexts, ni \in 0..MaxRecs, na \in 0..MaxRecs, nc \in 0..MaxRecs,
        np \in 0..MaxRecs :
       /\ pc = "idle"
       /\ LET commits == [i \in 1..nc |-> NormalizeCommit(RawCommit(i))]
          IN GenerateCalled(query,
               [user |-> JiraUserMaya,
                issues |-> NormalizeIssues(FirstN(RawIssue, ni)),
                recentActivity |-> [i \in 1..na |-> NormalizeActivity(RawIssue(i))]],
               [user |-> GithubUserMaya,
                commits |-> commits,
                pullRequests |-> [i \in 1..np |-> NormalizePullRequest(RawPullRequest(i))],
                repositories |-> getRecentRepositories(commits)])
  \/ \E a \in AIAnswers : GenerateAnswered(a)

SpecGenerate == Init /\ [][NextGenerate]_vars

\* the fixed narrative of a model without activity
NoActivityNarrative(userName) ==
  userName \o " doesn't appear to have any recent activity on JIRA or GitHub. "
  \o "This could mean they're on vacation, working on a different project, "
  \o "or the data might not be synced yet."

\* generateResponse has returned for a model whose totalItems is 0
ReturnedEmpty == pc = "done" /\ h.enriched.metrics.totalItems = 0

\* C19 as stated: for a model whose totalItems is 0 generateResponse never
\* calls the generative strategy, and it returns the fixed narrative.
C19_Original ==
  /\ (pc \in {"generating", "done"} /\ h.enriched.metrics.totalItems = 0)
       => "generateAIResponse" \notin calls
  /\ ReturnedEmpty => resp.body.response = NoActivityNarrative(h.name)

\* C19: for a model whose totalItems is 0, generateResponse without a
\* generative backend returns the fixed narrative and calls no generative
\* strategy; with a backend it calls the generative strategy first, returns
\* the completion when there is one, and the fixed narrative when the call
\* fails.
C19_NoActivityNarrative ==
  /\ (pc \in {"generating", "done"} /\ h.enriched.metrics.totalItems = 0)
       => (("generateAIResponse" \in calls) <=> useAI)
  /\ ReturnedEmpty =>
       IF "completion" \in net
         THEN /\ resp.body.response \in {a.content : a \in {b \in AIAnswers : b.ok}}
              /\ resp.body.response # NoActivityNarrative(h.name)
         ELSE resp.body.response = NoActivityNarrative(h.name)

\* with a backend whose call fails, the model without activity gets the
\* fixed narrative
C19_Witness ==
  /\ ReturnedEmpty /\ useAI /\ "failure" \in net
  /\ h.enriched.jira.recentActivity # << >>
  /\ resp.body.response = NoActivityNarrative(h.name)

C28_RetryWaits ==
  \A j \in MissesOf(JiraOps) :
    \A i \in 0..(hist[j].attempts - 2) :
      /\ i + 1 \in DOMAIN hist[j].waits
      /\ hist[j].answers[i + 1].status = 429 => hist[j].waits[i + 1] = (2 ^ i) * 1000
      /\ hist[j].answers[i + 1].status >= 500 => hist[j].waits[i + 1] = (i + 1) * 1000
      /\ hist[j].answers[i + 1].status = 429 \/ hist[j].answers[i + 1].status >= 500

\* a server fault after a rate-limit answer, then a success: the two kinds
\* of failure alternate in one call
C28_Witness ==
  \E j \in MissesOf(JiraOps) :
    /\ StatusesOf(j) = <<500, 429, 200>>
    /\ hist[j].attempts = 3
    /\ hist[j].waits = <<1000, 2000>>
    /\ hist[j].st = "fulfilled"

(***************************************************************************)
(* The shared QueryParser: the server builds one instance (part_005) and   *)
(* every request calls its parse; the RegExp objects of timePatterns live  *)
(* as long as the instance.                                                *)
(***************************************************************************)
\* parse calls made in one behaviour of SpecParse
MaxParses == 3

\* the texts the parser is called with
ParseTexts ==
  {"What has Maya committed this week",
   "What is Maya working on these days?",
   "What did Maya do this week and last month",
   "What did Maya close last month",
   "Maya today",
   "show me the open issues"}

\* new QueryParser(): every RegExp literal starts with lastIndex 0
FreshLastIndex == [k \in 1..NumPatterns |-> 0]

\* const parsed = queryParser.parse(query), on the one instance
ParseCalled(query) ==
  /\ Len(hist) < MaxParses
  /\ LET p == parse(query, lastIndex)
     IN /\ lastIndex' = p.lastIndex
        /\ h' = [NoFrame EXCEPT !.valid = TRUE, !.query = query, !.parsed = p.parsed]
        /\ hist' = Append(hist, [query |-> query, parsed |-> p.parsed,
                                 before |-> lastIndex])
  /\ UNCHANGED <<ghToken, useAI, jiraCache, ghCache, now, pc, qn, jiraUser, githubUser,
                 fetch, own, calls, net, sent, resp, escaped>>

NextParse == \E query \in ParseTexts : ParseCalled(query)

SpecParse == Init /\ [][NextParse]_vars

\* the patterns of timePatterns that match the text, searched from its start
MatchingPatterns(query) ==
  {k \in 1..NumPatterns : RegExpTest(timePatterns[k].alts, query, 0).found}

\* C22: every parse call on the shared instance returns the ParsedQuery
\* that the first call on a fresh instance returns for the same text.
C22_ParsePure ==
  \A j \in 1..Len(hist) :
    hist[j].parsed = parse(hist[j].query, FreshLastIndex).parsed

\* the same text parsed twice: the first call finds the window of 7 days,
\* the second finds none
C22_Witness ==
  /\ Len(hist) >= 2
  /\ hist[1].query = "What has Maya committed this week"
  /\ hist[2].query = hist[1].query
  /\ hist[1].parsed.timeframe = 7
  /\ hist[2].parsed.timeframe = NoTimeframe

\* C23: when two or more patterns match the text, the call returns the days
\* of the earliest of them in timePatterns; a text with "this week" and
\* "last month" gives 7.
C23_EarliestPatternWins ==
  \A j \in 1..Len(hist) :
    LET m == MatchingPatterns(hist[j].query)
    IN Cardinality(m) >= 2 =>
         hist[j].parsed.timeframe =
           timePatterns[CHOOSE k \in m : \A l \in m : k <= l].days

\* a text with "this week" and "last month" parsed twice: 7 days, then 60
C23_Witness ==
  /\ Len(hist) >= 2
  /\ hist[1].query = "What did Maya do this week and last month"
  /\ hist[2].query = hist[1].query
  /\ hist[1].before = FreshLastIndex
  /\ hist[1].parsed.timeframe = 7
  /\ hist[2].parsed.timeframe = 60

(***************************************************************************)
(* The DataEnricher: the server builds one instance (part_005) and every   *)
(* query that found a user calls its enrich with the records the fetches   *)
(* returned.  own holds the record lists of the call, h.enriched what it   *)
(* returned, hist the calls made so far.                                   *)
(***************************************************************************)
\* SpecMetrics: issues of high priority, other issues, commits and pull
\* requests in the record lists, at most
MaxHigh == 4
MaxOther == 1
MaxCommits == 6
MaxPulls == 6
\* SpecLink: enrich calls made in one behaviour
MaxEnrich == 2

HighNames == <<"High", "Highest", "Critical">>

\* the n-th issue of a list whose first nh issues are of high priority
MeasuredIssue(n, nh) ==
  NormalizeIssue([RawIssue(n) EXCEPT
                    !.priority = IF n <= nh THEN HighNames[(n % 3) + 1]
                                 ELSE IF n % 2 = 0 THEN "Medium" ELSE Nil])

\* the n-th commit of a list whose first nl commits name the first issue,
\* each commit in its own repository (spread) or all in one
MeasuredCommit(n, spread, nl) ==
  NormalizeCommit([RawCommit(n) EXCEPT
                     !.message = IF n <= nl THEN "fix ABC-1" ELSE "Update docs",
                     !.repository = "org/repo" \o ToString(IF spread THEN n ELSE 0)])

\* no commit names an issue, half of them do (rounded down), one more does
LinkedCounts(nc) == {0, nc \div 2, (nc \div 2) + 1} \cap (0..nc)

\* the commits of SpecLink: one names ABC-1, one names ABC-1 and ABC-2, one
\* names abc-2 in lower case and a ticket of another project
LinkCommit(n) ==
  NormalizeCommit(IF n = 3 THEN [RawCommit(3) EXCEPT !.message = "ABC-1 and ABC-2 done"]
                  ELSE RawCommit(n))

LinkCommitLists ==
  UNION {{c \in [1..n -> 1..3] : \A a, b \in 1..n : a # b => c[a] # c[b]} : n \in 0..3}

LinkIssueLists == {<< >>, <<1>>, <<1, 2>>, <<2, 1>>}

\* const enrichedData = dataEnricher.enrich(jiraData, githubData, timeframe)
EnrichCalled(jiraData, githubData) ==
  /\ Len(hist) < MaxEnrich
  /\ LET enrichedData == enrich(jiraData, githubData, DefaultTimeframe)
     IN /\ h' = [NoFrame EXCEPT !.valid = TRUE, !.timeframe = DefaultTimeframe,
                                 !.enriched = enrichedData]
        /\ hist' = Append(hist, [issues |-> jiraData.issues,
                                 commits |-> githubData.commits,
                                 linked |-> enrichedData.linked])
  /\ own' = [issues |-> Resolved(jiraData.issues),
             activity |-> Resolved(jiraData.recentActivity),
             commits |-> Resolved(githubData.commits),
             prs |-> Resolved(githubData.pullRequests),
             repos |-> Resolved(githubData.repositories)]
  /\ UNCHANGED <<ghToken, useAI, jiraCache, ghCache, lastIndex, now, pc, qn, jiraUser,
                 githubUser, fetch, calls, net, sent, resp, escaped>>

\* the server before its first query, a token configured
InitEnrich == InitCache /\ ghToken

\* one query: the record lists of every size up to the bounds, with and
\* without recent-activity and repository records
NextMetrics ==
  \E nh \in 0..MaxHigh, no \in 0..MaxOther, nc \in 0..MaxCommits, np \in 0..MaxPulls,
     spread \in BOOLEAN, withOthers \in BOOLEAN :
    \E nl \in LinkedCounts(nc) :
      /\ hist = << >>
      /\ LET commits == [n \in 1..nc |-> MeasuredCommit(n, spread, nl)]
         IN EnrichCalled(
              [user |-> JiraUserMaya,
               issues |-> [n \in 1..(nh + no) |-> MeasuredIssue(n, nh)],
               recentActivity |-> IF withOthers
                                    THEN <<NormalizeActivity(RawIssue(1))>> ELSE << >>],
              [user |-> GithubUserMaya,
               commits |-> commits,
               pullRequests |-> [n \in 1..np |-> NormalizePullRequest(RawPullRequest(n))],
               repositories |-> IF withOthers THEN getRecentRepositories(commits)
                                ELSE << >>])

SpecMetrics == InitEnrich /\ [][NextMetrics]_vars

\* a sequence of queries: the commits in every order, with and without the
\* issues they name
NextLink ==
  \E c \in LinkCommitLists, i \in LinkIssueLists :
    /\ Len(hist) < MaxEnrich
    /\ EnrichCalled(
         [user |-> JiraUserMaya,
          issues |-> NormalizeIssues([k \in 1..Len(i) |-> RawIssue(i[k])]),
          recentActivity |-> << >>],
         [user |-> GithubUserMaya,
          commits |-> [k \in 1..Len(c) |-> LinkCommit(c[k])],
          pullRequests |-> << >>,
          repositories |-> << >>])

SpecLink == InitEnrich /\ [][NextLink]_vars

\* the record lists of the call that h.enriched answers
Enriched == h.enriched # Null
IssuesIn == own.issues.v
CommitsIn == own.commits.v
PullsIn == own.prs.v

\* C24: totalItems of the metrics is the number of issues plus the number of
\* commits plus the number of pull requests of the call, whichever of the
\* lists are empty, with and without repositories and recent-activity
\* records.
C24_TotalItems ==
  Enriched =>
    /\ h.enriched.metrics.totalItems = Len(IssuesIn) + Len(CommitsIn) + Len(PullsIn)
    /\ (Len(IssuesIn) = 0 /\ Len(CommitsIn) = 0 /\ Len(PullsIn) = 0)
         => h.enriched.metrics.totalItems = 0

\* no issue, two commits and one pull request, with a recent-activity record
\* and repositories: three items
C24_Witness ==
  /\ Enriched
  /\ Len(IssuesIn) = 0 /\ Len(CommitsIn) = 2 /\ Len(PullsIn) = 1
  /\ Len(own.activity.v) = 1 /\ Len(own.repos.v) = 2
  /\ h.enriched.metrics.totalItems = 3

\* C25: activityScore is twice the issues plus the commits plus three times
\* the pull requests, and activityLevel is low up to a score of 10, medium
\* from 11 to 20, high from 21.
C25_ActivityLevel ==
  Enriched =>
    LET score == h.enriched.metrics.activityScore
        level == h.enriched.metrics.activityLevel
    IN /\ score = 2 * Len(IssuesIn) + Len(CommitsIn) + 3 * Len(PullsIn)
       /\ level = "low" <=> score <= 10
       /\ level = "medium" <=> (score >= 11 /\ score <= 20)
       /\ level = "high" <=> score >= 21

\* a score of exactly 20, from records of the three kinds: medium
C25_Witness ==
  /\ Enriched
  /\ Len(IssuesIn) = 4 /\ Len(CommitsIn) = 6 /\ Len(PullsIn) = 2
  /\ h.enriched.metrics.activityScore = 20
  /\ h.enriched.metrics.activityLevel = "medium"

\* the flags the thresholds call for, in the order of the code
PatternOrder ==
  <<"multiple_high_priority", "multi_repository", "many_open_prs", "good_tracking">>

Exceeded(type) ==
  IF type = "multiple_high_priority"
    THEN Cardinality({i \in 1..Len(IssuesIn) :
                        IssuesIn[i].priority \in {"High", "Highest", "Critical"}}) > 3
  ELSE IF type = "multi_repository"
    THEN Cardinality({CommitsIn[i].repository : i \in 1..Len(CommitsIn)}) > 5
  ELSE IF type = "many_open_prs"
    THEN Len(PullsIn) > 5
  ELSE 2 * Len(h.enriched.linked) > Len(CommitsIn)

\* C30: the flags of workPatterns are those whose threshold is exceeded
\* (more than 3 issues of high priority, more than 5 repositories among the
\* commits, more than 5 pull requests, more linked pairs than half the
\* commits), in the order multiple_high_priority, multi_repository,
\* many_open_prs, good_tracking.
C30_WorkPatterns ==
  Enriched =>
    [i \in 1..Len(h.enriched.workPatterns) |-> h.enriched.workPatterns[i].type]
      = SelectSeq(PatternOrder, Exceeded)

\* the four thresholds exceeded at once
C30_Witness ==
  /\ Enriched
  /\ Len(h.enriched.workPatterns) = 4
  /\ h.enriched.workPatterns[1].type = "multiple_high_priority"
  /\ h.enriched.workPatterns[4].type = "good_tracking"
  /\ Len(PullsIn) = 6 /\ Len(CommitsIn) = 6 /\ Len(h.enriched.linked) = 4

\* the number of times x is in the list
CountIn(list, x) == Cardinality({i \in 1..Len(list) : list[i] = x})

\* the two lists have the same elements the same number of times
SameMultiset(a, b) ==
  /\ Len(a) = Len(b)
  /\ \A i \in 1..Len(a) : CountIn(a, a[i]) = CountIn(b, a[i])

\* C26: in every call, each linked pair joins a commit of the call with an
\* issue of the call whose key is among the tickets that commit names,
\* whatever the earlier calls were given.
C26_LinkedWithinQuery ==
  \A j \in 1..Len(hist) :
    \A p \in 1..Len(hist[j].linked) :
      LET pair == hist[j].linked[p]
      IN /\ \E c \in 1..Len(hist[j].commits) :
              /\ hist[j].commits[c].sha = pair.commit.sha
              /\ hist[j].commits[c].message = pair.commit.message
              /\ pair.ticket.key \in SeqToSet(hist[j].commits[c].jiraTickets)
         /\ \E i \in 1..Len(hist[j].issues) :
              /\ hist[j].issues[i].key = pair.ticket.key
              /\ hist[j].issues[i].summary = pair.ticket.summary

\* the first query has the issues ABC-1 and ABC-2, the second ABC-1 only:
\* the commit that names both is paired with both, then with ABC-1 alone
C26_Witness ==
  /\ Len(hist) = 2
  /\ Len(hist[1].issues) = 2 /\ Len(hist[2].issues) = 1
  /\ hist[1].commits = hist[2].commits /\ Len(hist[2].commits) = 1
  /\ Len(hist[1].linked) = 2
  /\ Len(hist[2].linked) = 1 /\ hist[2].linked[1].ticket.key = "ABC-1"

\* C27: two calls given the same issues and the same commits, in the same or
\* in another order, return the same pairs the same number of times.
C27_OrderIndependent ==
  \A j, k \in 1..Len(hist) :
    (SameMultiset(hist[j].issues, hist[k].issues)
       /\ SameMultiset(hist[j].commits, hist[k].commits))
      => SameMultiset(hist[j].linked, hist[k].linked)

\* three commits in two different orders, both issues: the same three pairs,
\* in another order
C27_Witness ==
  /\ Len(hist) = 2
  /\ Len(hist[1].commits) = 3
  /\ hist[1].commits # hist[2].commits
  /\ SameMultiset(hist[1].commits, hist[2].commits)
  /\ hist[1].issues = hist[2].issues /\ Len(hist[1].issues) = 2
  /\ Len(hist[1].linked) = 3
  /\ hist[1].linked # hist[2].linked
  /\ SameMultiset(hist[1].linked, hist[2].linked)

(***************************************************************************)
(* GitHubClient.makeRequest step by step: the preflight checkRateLimit     *)
(* (its GET /rate_limit, its sleep until the reset time), then the request *)
(* itself.  hist holds one record for each makeRequest, the clock is now   *)
(* (seconds).                                                              *)
(***************************************************************************)
\* data.rate.reset of the answers: passed, and three times ahead
ResetTimes == {0, TickStep, TickStep + 1, 2 * TickStep}

\* what GET /rate_limit is answered with: the quota and its reset time, a
\* body without them, or a failure
RateLimitAnswers ==
  {[status |-> 200, ok |-> TRUE, remaining |-> r, reset |-> t] :
     r \in {0, 9, 10}, t \in ResetTimes}
  \cup {[status |-> st, ok |-> FALSE, remaining |-> 0, reset |-> 0] : st \in {200, 401, 500}}

NoRate == [status |-> 0, ok |-> FALSE, remaining |-> 0, reset |-> 0]

\* a preflight that never sleeps
RateLimitNoWait(a, at) == 0

\* checkRateLimit after its answer at the time `at`: the time it sleeps
RateLimitWait(a, at) ==
  IF a.status = 200 /\ a.ok /\ a.remaining < 10 /\ a.reset - at > 0
    THEN a.reset - at
    ELSE 0

\* makeRequest is called: with a token checkRateLimit sends GET /rate_limit,
\* without one the request itself goes out at once
MakeRequestCalled ==
  /\ pc = "idle"
  /\ Len(hist) < MaxCalls
  /\ hist' = Append(hist, [token |-> ghToken, calledAt |-> now, queried |-> ghToken,
                           rate |-> NoRate, rateAt |-> 0, wait |-> 0,
                           issued |-> ~ghToken, issuedAt |-> IF ghToken THEN 0 ELSE now,
                           done |-> FALSE, result |-> "none"])
  /\ pc' = IF ghToken THEN "checking" ELSE "requested"
  /\ sent' = sent + 1
  /\ UNCHANGED <<ghToken, useAI, jiraCache, ghCache, lastIndex, now, qn, h, jiraUser,
                 githubUser, fetch, own, calls, net, resp, escaped>>

\* GET /rate_limit is answered: checkRateLimit sleeps, or returns and the
\* request goes out
RateLimitAnswered(a) ==
  /\ pc = "checking"
  /\ LET i == Len(hist)
         waitTime == RateLimitWait(a, now)
     IN IF waitTime > 0
          THEN /\ hist' = [hist EXCEPT ![i].rate = a, ![i].rateAt = now,
                                        ![i].wait = waitTime]
               /\ pc' = "waiting"
               /\ UNCHANGED sent
          ELSE /\ hist' = [hist EXCEPT ![i].rate = a, ![i].rateAt = now,
                                        ![i].issued = TRUE, ![i].issuedAt = now]
               /\ pc' = "requested"
               /\ sent' = sent + 1
  /\ UNCHANGED <<ghToken, useAI, jiraCache, ghCache, lastIndex, now, qn, h, jiraUser,
                 githubUser, fetch, own, calls, net, resp, escaped>>

\* the timer of checkRateLimit fires, not before its delay has passed: the
\* request goes out
WaitElapsed ==
  /\ pc = "waiting"
  /\ LET i == Len(hist)
     IN /\ now >= hist[i].rateAt + hist[i].wait
        /\ hist' = [hist EXCEPT ![i].issued = TRUE, ![i].issuedAt = now]
  /\ pc' = "requested"
  /\ sent' = sent + 1
  /\ UNCHANGED <<ghToken, useAI, jiraCache, ghCache, lastIndex, now, qn, h, jiraUser,
                 githubUser, fetch, own, calls, net, resp, escaped>>

\* the request is answered: makeRequest returns or throws
RequestAnswered(a) ==
  /\ pc = "requested"
  /\ hist' = [hist EXCEPT ![Len(hist)].done = TRUE, ![Len(hist)].result = makeRequest(a).t]
  /\ pc' = "idle"
  /\ UNCHANGED <<ghToken, useAI, jiraCache, ghCache, lastIndex, now, qn, h, jiraUser,
                 githubUser, fetch, own, calls, net, sent, resp, escaped>>

NextRateLimit ==
  \/ MakeRequestCalled
  \/ \E a \in RateLimitAnswers : RateLimitAnswered(a)
  \/ WaitElapsed
  \/ \E a \in {Ok(<< >>), Fail(401), Fail(404), Fail(500)} : RequestAnswered(a)
  \/ Tick

SpecRateLimit == InitCache /\ [][NextRateLimit]_vars

\* C29: with a token, a request whose preflight was answered with a quota
\* below 10 and a reset time still ahead goes out no earlier than that reset
\* time; without a token no GET /rate_limit is sent and the request goes out
\* at the time of the call.
C29_Preflight ==
  \A j \in 1..Len(hist) :
    /\ (hist[j].token /\ hist[j].issued /\ hist[j].rate.status = 200 /\ hist[j].rate.ok
          /\ hist[j].rate.remaining < 10 /\ hist[j].rate.reset > hist[j].rateAt)
         => hist[j].issuedAt >= hist[j].rate.reset
    /\ (hist[j].token /\ ~hist[j].issued /\ hist[j].rate # NoRate)
         => (hist[j].rate.remaining < 10 /\ hist[j].rate.reset > hist[j].rateAt)
    /\ ~hist[j].token
         => (~hist[j].queried /\ hist[j].rate = NoRate /\ hist[j].wait = 0
               /\ hist[j].issued /\ hist[j].issuedAt = hist[j].calledAt)

\* nine requests left and the reset a second after the next step of the
\* clock: the request goes out two steps later and is answered
C29_Witness ==
  \E j \in 1..Len(hist) :
    /\ hist[j].token /\ hist[j].done
    /\ hist[j].rate.remaining = 9
    /\ hist[j].rateAt = 0 /\ hist[j].rate.reset = TickStep + 1
    /\ hist[j].issuedAt = 2 * TickStep
    /\ hist[j].result = "response"

(***************************************************************************)
(* getRecentCommits on the commit messages of the search answer: the       *)
(* ticket references of each commit.  hist holds, for each call, the       *)
(* messages of the answer and the commits returned.                        *)
(***************************************************************************)
\* item.commit.message of the commits the search finds
CommitMessages ==
  {"fix ABC-123 and ABC-123 again",
   "Update docs\n\nrefs abc-2, XYZ-7",
   "Merge branch main",
   "PROJ-1: start\n\ncloses PROJ-22",
   "switch to utf-8, see OPS-9",
   "AB-CD-12 and ABC-1x"}

\* the lists of messages of one answer: one commit or two
MessageLists ==
  {<<m>> : m \in CommitMessages} \cup {<<m, n>> : m \in CommitMessages, n \in CommitMessages}

\* the code host answers the commit search with the commits of these
\* messages: getRecentCommits returns
CommitsFetched(messages) ==
  /\ Len(hist) < MaxCalls
  /\ LET items == [k \in 1..Len(messages) |-> [RawCommit(k) EXCEPT !.message = messages[k]]]
         r == getRecentCommits(Ok(items))
     IN hist' = Append(hist, [messages |-> messages, v |-> r.v])
  /\ UNCHANGED <<ghToken, useAI, jiraCache, ghCache, lastIndex, now, pc, qn, h, jiraUser,
                 githubUser, fetch, own, calls, net, sent, resp, escaped>>

NextExtract == \E messages \in MessageLists : CommitsFetched(messages)

SpecExtract == InitEnrich /\ [][NextExtract]_vars

\* the text from p to q is upper-case letters, a hyphen, digits
UpperTicketAt(m, p, q) ==
  \E d \in (p + 1)..(q - 1) :
    /\ Ch(m, d) = "-"
    /\ \A k \in p..(d - 1) : Ch(m, k) \in UpperSet
    /\ \A k \in (d + 1)..q : Ch(m, k) \in DigitSet

\* the tokens of that form in the message, each as long as it can be
UpperTickets(m) ==
  {SubSeq(m, x[1], x[2]) :
     x \in {y \in (1..Len(m)) \X (1..Len(m)) :
              /\ UpperTicketAt(m, y[1], y[2])
              /\ (y[1] = 1 \/ Ch(m, y[1] - 1) \notin UpperSet)
              /\ (y[2] = Len(m) \/ Ch(m, y[2] + 1) \notin DigitSet)}}

\* C31: the jiraTickets of every commit returned are, without duplicates,
\* the tokens of upper-case letters, a hyphen and digits of its message.
C31_UpperTickets ==
  \A j \in 1..Len(hist) :
    \A k \in 1..Len(hist[j].v) :
      /\ SeqToSet(hist[j].v[k].jiraTickets) = UpperTickets(hist[j].messages[k])
      /\ Cardinality(SeqToSet(hist[j].v[k].jiraTickets)) = Len(hist[j].v[k].jiraTickets)

\* a message that names one ticket in lower case and one in upper case:
\* both are returned
C31_Witness ==
  \E j \in 1..Len(hist) :
    /\ hist[j].messages = <<"Update docs\n\nrefs abc-2, XYZ-7">>
    /\ hist[j].v[1].jiraTickets = <<"abc-2", "XYZ-7">>
    /\ UpperTickets(hist[j].messages[1]) = {"XYZ-7"}

(***************************************************************************)
(* Further properties of the enriched model, checked under SpecMetrics.    *)
(***************************************************************************)
\* the issues of the call whose priority is High, Highest or Critical
HighIn ==
  {i \in 1..Len(IssuesIn) : IssuesIn[i].priority \in {"High", "Highest", "Critical"}}

\* the flags of the given type in workPatterns
FlagsOf(type) ==
  SelectSeq(h.enriched.workPatterns, LAMBDA f : f.type = type)

\* C32: highPriority of the tracker summary is the number of issues of
\* priority High, Highest or Critical, 0 for the empty list, and is the
\* count of the multiple_high_priority flag when that flag is there.
C32_HighPriority ==
  Enriched =>
    /\ "highPriority" \in DOMAIN h.enriched.jira.summary
    /\ h.enriched.jira.summary.highPriority = Cardinality(HighIn)
    /\ \A k \in 1..Len(FlagsOf("multiple_high_priority")) :
         FlagsOf("multiple_high_priority")[k].count = h.enriched.jira.summary.highPriority

\* no issue, some commits: the summary has a count of 0 and no highPriority
C32_Witness ==
  /\ Enriched
  /\ Len(IssuesIn) = 0 /\ Len(CommitsIn) = 1
  /\ h.enriched.jira.summary.count = 0
  /\ "highPriority" \notin DOMAIN h.enriched.jira.summary

(***************************************************************************)
(* Further properties of the client operations, checked under SpecClient.  *)
(***************************************************************************)
\* C33: a getAssignedIssues whose request is answered not found (404) or
\* gone (410) is fulfilled with the empty list; that answer is the last one
\* it asks for, and when it is the first one the call has made a single
\* attempt and waited for no delay.
C33_NotFoundEmpty ==
  \A j \in MissesOf({"getAssignedIssues"}) :
    LastStatus(j) \in {404, 410} =>
      /\ hist[j].st = "fulfilled" /\ hist[j].v = << >>
      /\ \A k \in 1..(Len(hist[j].answers) - 1) : hist[j].answers[k].status \notin {404, 410}
      /\ hist[j].answers[1].status \in {404, 410}
           => (hist[j].attempts = 1 /\ hist[j].waits = << >>)

\* the issue search is answered gone: an empty list after one attempt
C33_Witness ==
  \E j \in MissesOf({"getAssignedIssues"}) :
    /\ StatusesOf(j) = <<410>>
    /\ hist[j].st = "fulfilled" /\ hist[j].v = << >>
    /\ hist[j].attempts = 1 /\ hist[j].waits = << >>

(***************************************************************************)
(* Further properties of the handler, checked under Spec.                  *)
(***************************************************************************)
\* the fetches of the query in flight that send GET /search/commits: the
\* commits fetch, and the repositories fetch through getRecentCommits
CommitSearches == {f \in {"commits", "repos"} : f \in net}

\* C34: within one query the commit search of the code host reaches the
\* network at most once, the commits fetch and the repositories fetch
\* being started together with the same login and window.
C34_OneCommitSearch == Cardinality(CommitSearches) <= 1

\* a query on a cold cache, answered: both fetches have sent the search
C34_Witness ==
  /\ pc = "done" /\ githubUser.v # Null
  /\ CommitSearches = {"commits", "repos"}
  /\ own.commits.st = "fulfilled" /\ own.repos.st = "fulfilled"

(***************************************************************************)
(* The operations of the two clients called one after the other, each call *)
(* returning before the next is made: SpecRefetch.  hist holds one entry   *)
(* for each call: the operation, the name and the cache key, whether the   *)
(* call was served from the cache or went to the network, how it settled,  *)
(* the status of the last answer it consumed and whether the upstream      *)
(* answered successfully, and whether the call wrote its result to the     *)
(* cache.                                                                  *)
(***************************************************************************)
\* the upstream answered the operation successfully: the answer its result
\* is built from has status 200 and the expected body (for the open pull
\* requests the search, no detail request failing but by 404 or 401)
Succeeded(op, a) ==
  /\ a # << >>
  /\ IF op = "getActivePullRequests"
       THEN /\ a[1].status = 200 /\ a[1].body.ok
            /\ \A k \in 2..Len(a) : a[k].status \in {200, 404, 401}
       ELSE a[Len(a)].status = 200 /\ a[Len(a)].body.ok

\* the operation runs from its cache lookup to its return; out is what the
\* upstream service makes of it when it goes to the network
CallToEnd(op, name, out) ==
  /\ Len(hist) < MaxCalls
  /\ (op \in IdentityOps) <=> (name # Nil)
  /\ hist # << >> => ClientKey(hist[1].op, "") = ClientKey(op, "")
  /\ LET cache == IF op \in JiraOps THEN jiraCache ELSE ghCache
         key == ClientKey(op, name)
         skipped == op = "findUser" /\ ~ghToken
         hit == ~skipped /\ op # "getRecentActivity" /\ CacheLive(cache, key, now)
         went == ~skipped /\ ~hit
         cached == CacheGet(cache, key, now)
         stored == went /\ out.store
         after == IF stored THEN CacheSet(cache, key, out.v, now, DefaultTTL) ELSE cache
     IN /\ hist' = Append(hist,
                     [op |-> op, name |-> name, key |-> key, hit |-> hit, went |-> went,
                      st |-> IF went THEN out.st ELSE "fulfilled",
                      v |-> IF hit
                              THEN IF op = "getRecentRepositories"
                                     THEN getRecentRepositories(cached) ELSE cached
                            ELSE IF went
                              THEN IF op = "getRecentRepositories"
                                     THEN getRecentRepositories(out.v) ELSE out.v
                            ELSE Null,
                      last |-> IF went THEN out.answers[Len(out.answers)].status ELSE 0,
                      ok |-> went /\ Succeeded(op, out.answers),
                      stored |-> stored])
        /\ jiraCache' = IF op \in JiraOps THEN after ELSE jiraCache
        /\ ghCache' = IF op \in GithubOps THEN after ELSE ghCache
  /\ UNCHANGED <<ghToken, now, HandlerVars>>

NextRefetch ==
  \E op \in ClientOps, name \in NameVariants \cup {Nil} :
    /\ Len(hist) < MaxCalls
    /\ \E out \in Outcomes[op] : CallToEnd(op, name, out)

SpecRefetch == InitCache /\ [][NextRefetch]_vars

\* the call i went to the network and wrote nothing, and no call between it
\* and the call j wrote under its key
NothingCachedSince(i, j) ==
  /\ hist[i].went /\ ~hist[i].stored
  /\ \A k \in (i + 1)..(j - 1) : ~(hist[k].stored /\ hist[k].key = hist[i].key)

\* C35: a call writes its result to the cache only when the upstream
\* answered it successfully; a call that went to the network and returned an
\* empty list or an absent identity without such an answer writes nothing,
\* and the next call of the operation with the same key is not served from
\* the cache: it goes to the network again.
C35_CachedOnSuccess ==
  \A j \in 1..Len(hist) :
    /\ hist[j].stored => (hist[j].went /\ hist[j].st = "fulfilled" /\ hist[j].ok)
    /\ (hist[j].went /\ ~hist[j].ok) =>
         /\ ~hist[j].stored
         /\ hist[j].st = "fulfilled" => hist[j].v \in {<< >>, Null}
    /\ \A i \in 1..(j - 1) :
         (/\ hist[i].op = hist[j].op /\ hist[i].key = hist[j].key
          /\ NothingCachedSince(i, j))
           => (~hist[j].hit /\ hist[j].went)

\* the commit search fails, the fetch returns the empty list; the same fetch
\* is made again, goes to the network and this time stores its commits
C35_Witness ==
  /\ Len(hist) = 2
  /\ \A j \in 1..2 : hist[j].op = "getRecentCommits" /\ hist[j].went
  /\ hist[1].last = 500 /\ ~hist[1].ok
  /\ hist[1].v = << >> /\ ~hist[1].stored
  /\ hist[2].stored /\ hist[2].v # << >>

(***************************************************************************)
(* getActivePullRequests on a search that finds several open pull          *)
(* requests, the detail requests answered in every way: SpecPulls.  hist   *)
(* holds the call: the answers to the detail requests, the list returned   *)
(* and whether it was written to the cache.                                *)
(***************************************************************************)
\* open pull requests the search finds at most
MaxDetails == 3

\* the answers to a detail request: the pull request (here without it), a
\* response without data, or a failure
DetailAnswers == {Ok(<< >>), Malformed} \cup {Fail(st) : st \in FailureStatuses}

\* the search finds Len(answers) pull requests; answers[i] answers the detail
\* request of the i-th
PullsFetched(answers) ==
  /\ hist = << >>
  /\ LET n == Len(answers)
         details == [i \in 1..n |-> IF answers[i] = Ok(<< >>)
                                      THEN Ok(<<RawPullRequest(i)>>) ELSE answers[i]]
         r == getActivePullRequests(Ok(FirstN(RawPullRequest, n)), details)
     IN hist' = <<[details |-> details, v |-> r.v, store |-> r.store,
                   attempts |-> r.attempts]>>
  /\ UNCHANGED <<ghToken, jiraCache, ghCache, now, HandlerVars>>

NextPulls ==
  \E n \in 1..MaxDetails :
    /\ hist = << >>
    /\ \E answers \in [1..n -> DetailAnswers] : PullsFetched(answers)

SpecPulls == InitEnrich /\ [][NextPulls]_vars

\* the detail requests of the call that raised, and those answered with the
\* pull request
RaisedDetails(c) == {i \in 1..Len(c.details) : c.details[i].status \notin {200, 404, 401}}
AnsweredDetails(c) ==
  {i \in 1..Len(c.details) : c.details[i].status = 200 /\ c.details[i].body.ok}

\* C36: when a detail request of the open pull requests raises (a failure
\* other than not found and unauthorized), the fetch returns the empty list
\* whatever the other detail requests answered, and caches nothing; when
\* none raises, the fetch returns and caches, in the order of the search,
\* the pull requests whose detail request was answered: one answered not
\* found or unauthorized drops that pull request only.
C36_AllOrNothing ==
  \A j \in 1..Len(hist) :
    LET c == hist[j]
    IN IF RaisedDetails(c) # {}
         THEN c.v = << >> /\ ~c.store
         ELSE /\ c.store
              /\ Len(c.v) = Cardinality(AnsweredDetails(c))
              /\ {c.v[k].number : k \in 1..Len(c.v)} = AnsweredDetails(c)
              /\ \A k \in 1..(Len(c.v) - 1) : c.v[k].number < c.v[k + 1].number

\* three pull requests found, the second detail request fails with 500
\* while the two others are answered: nothing is returned, nothing cached
C36_Witness ==
  /\ Len(hist) = 1 /\ Len(hist[1].details) = 3
  /\ RaisedDetails(hist[1]) = {2} /\ hist[1].details[2].status = 500
  /\ AnsweredDetails(hist[1]) = {1, 3}
  /\ hist[1].v = << >> /\ ~hist[1].store

(***************************************************************************)
(* Further properties of the linking, checked under SpecLink.              *)
(***************************************************************************)
\* the commits of the call that name at least one issue of the call
LinkedCommitsIn ==
  {c \in 1..Len(CommitsIn) :
     \E t \in SeqToSet(CommitsIn[c].jiraTickets) :
       t \in {IssuesIn[i].key : i \in 1..Len(IssuesIn)}}

\* C37: when workPatterns holds the good_tracking flag, more than half of
\* the commits of the call each name at least one issue of the call.
C37_MostCommitsLinked ==
  (Enriched /\ FlagsOf("good_tracking") # << >>)
    => 2 * Cardinality(LinkedCommitsIn) > Len(CommitsIn)

\* two commits, one naming both issues and one naming none: two pairs, the
\* flag is raised with one commit of two linked
C37_Witness ==
  /\ Enriched /\ FlagsOf("good_tracking") # << >>
  /\ Len(CommitsIn) = 2 /\ Len(IssuesIn) = 2
  /\ Cardinality(LinkedCommitsIn) = 1
  /\ Len(h.enriched.linked) = 2

(***************************************************************************)
(* The summary of the code host in the handler's response, checked under   *)
(* Spec.                                                                   *)
(***************************************************************************)
\* the repositories named by the commits the commits fetch returned
CommitRepositories == {CommitsIn[i].repository : i \in 1..Len(CommitsIn)}

\* C38: repositoryCount of the code-host summary of every enriched model is
\* the number of distinct repositories among the commits of the query (the
\* number multi_repository is computed from), however the fetches ended.
C38_RepositoryCount ==
  (pc = "done" /\ Enriched)
    => h.enriched.github.summary.repositoryCount = Cardinality(CommitRepositories)

\* the commit search of the commits fetch is answered with a commit, the one
\* of the repositories fetch fails: one repository among the commits, none
\* counted in the summary
C38_Witness ==
  /\ pc = "done" /\ Enriched
  /\ Len(CommitsIn) = 1 /\ Cardinality(CommitRepositories) = 1
  /\ own.repos.st = "fulfilled" /\ own.repos.v = << >>
  /\ h.enriched.github.summary.commitCount = 1
  /\ h.enriched.github.summary.repositoryCount = 0

(***************************************************************************)
(* The identity lookup of the code host and the retry loop of the tracker, *)
(* checked under SpecClient.                                               *)
(***************************************************************************)
\* C39: findUser sends the search request only after a direct lookup that
\* raised, that is, failed with a status other than 404 and 401; after a
\* direct lookup answered 404 (or 401) it returns null having sent the
\* lookup alone, and stores nothing.
C39_SearchAfterFault ==
  \A j \in MissesOf({"findUser"}) :
    /\ hist[j].attempts > 1 => hist[j].answers[1].status \notin {200, 404, 401}
    /\ hist[j].answers[1].status \in {404, 401} =>
         /\ hist[j].attempts = 1 /\ Len(hist[j].answers) = 1
         /\ hist[j].reqs = RequestsOf(1)
         /\ hist[j].st = "fulfilled" /\ hist[j].v = Null /\ ~hist[j].stored

\* the direct lookup is answered not found: null after that one request
C39_Witness ==
  \E j \in MissesOf({"findUser"}) :
    /\ StatusesOf(j) = <<404>>
    /\ hist[j].attempts = 1 /\ hist[j].v = Null /\ ~hist[j].stored

\* C40: a request of the tracker that fails without an HTTP status (no
\* response: connection error, timeout) is not tried again: it is the last
\* attempt of its call and no delay is waited for after it, so that a call
\* whose first request fails this way ends after one attempt and no delay,
\* as after a client fault: nothing is stored, getAssignedIssues is rejected,
\* the other operations return their empty value.
C40_UnansweredNotRetried ==
  \A j \in MissesOf(JiraOps) :
    \A k \in 1..Len(hist[j].answers) :
      hist[j].answers[k].status = 0 =>
        /\ k = hist[j].attempts /\ k = Len(hist[j].answers)
        /\ Len(hist[j].waits) = k - 1
        /\ ~hist[j].stored
        /\ hist[j].st = (IF hist[j].op = "getAssignedIssues" THEN "rejected" ELSE "fulfilled")
        /\ hist[j].st = "fulfilled" => hist[j].v \in {Null, << >>}

\* the issue search gets no response: rejected after one attempt, no delay
C40_Witness ==
  \E j \in MissesOf({"getAssignedIssues"}) :
    /\ StatusesOf(j) = <<0>>
    /\ hist[j].st = "rejected"
    /\ hist[j].attempts = 1 /\ hist[j].waits = << >>

=============================================================================
